---- MODULE Spec2Model ----
(***************************************************************************)
(* High-Command API: the cache store (src/src/database.py), the upstream   *)
(* client (src/src/scraper.py), the collector (src/src/collector.py) and   *)
(* the fallback endpoints (src/src/app.py).                                *)
(*                                                                         *)
(* JSON objects are records (a key is present iff it is in the DOMAIN), a  *)
(* JSON list that may also be None is JList(items), Python None is the     *)
(* record None.                                                            *)
(* Wall-clock time is counted in whole seconds, the resolution of SQLite's *)
(* CURRENT_TIMESTAMP.                                                      *)
(***************************************************************************)
EXTENDS Integers, Sequences, FiniteSets, TLC

VARIABLES
    now,        \* wall clock, seconds
    db,         \* the SQLite file: table name -> [rows, seq]
    underTest,  \* the table a store run exercises
    tx,         \* the open transactions of concurrent writers, the last read
    lastStoreCall, \* history: the last store operation that failed
    written,    \* history: keyed table -> key -> the record of the last write
    last_request_time,  \* HellDivers2Scraper.last_request_time, per client
    upstream,   \* what the remote API answers to the next request
    lastCall,   \* history: the last client operation, NoCall before the first
    is_running, \* DataCollector.is_running
    jobs,       \* the number of recurring jobs the scheduler holds
    pc,         \* collect_all_data: 0 when no cycle runs, else the next step
    cycle,      \* history: the current (or last) collect-all cycle
    changes,    \* how often the remote API changed its behaviour
    lastLifecycle,  \* history: the last start() or stop()
    lastResponse    \* history: the last response of an endpoint

storeVars == <<db, underTest, tx, written, lastStoreCall>>
clientVars == <<last_request_time, upstream, lastCall>>
collectorVars == <<is_running, jobs, pc, cycle, changes, lastLifecycle>>
serviceVars == <<collectorVars, lastResponse>>
vars == <<now, storeVars, clientVars, serviceVars>>

\* ---------------------------------------------------------------- bounds
MaxTime == 2
MaxRows == 3
MaxKey == 2
MaxBatch == 2
MaxCycles == 2
MaxChanges == 2
MaxCalls == 1

\* ------------------------------------------------------------ primitives
None == [none |-> TRUE]

JList(items) == [list |-> items]

\* a JSON number where an object is expected
JScalar(n) == [scalar |-> n]

\* a JSON string where an object or a list is expected
JString(text) == [string |-> text]

\* isinstance(x, dict)
IsObject(x) == DOMAIN x \cap {"none", "list", "scalar", "string"} = {}

\* an exception that left the operation, by class name
Raised(e) == [raised |-> e]
HasRaised(x) == "raised" \in DOMAIN x

Min(a, b) == IF a < b THEN a ELSE b

\* json.dumps / json.loads: the stored TEXT is not the value itself
JsonDumps(d) == [text |-> d]
JsonLoads(s) == s.text

\* dict.get(key) on an int-valued field followed by a truthiness test:
\* a missing key gives None (falsy) and 0 is falsy as well
Truthy(obj, key) == key \in DOMAIN obj /\ obj[key] # 0

\* `if data:` on a fetched value: None, the empty list, the empty object, the
\* empty string and 0 are false
IsTruthy(x) ==
    CASE x = None -> FALSE
      [] "list" \in DOMAIN x -> Len(x.list) > 0
      [] "string" \in DOMAIN x -> x.string # ""
      [] "scalar" \in DOMAIN x -> x.scalar # 0
      [] OTHER -> DOMAIN x # {}

\* ------------------------------------------------------------ the schema
AppendTables == {"war_status", "statistics", "planet_status"}
KeyedTables == {"campaigns", "assignments", "dispatches", "planet_events"}
Tables == AppendTables \cup KeyedTables

\* the UNIQUE column of each table besides the AUTOINCREMENT id
UniqueColumn ==
    [t \in Tables |->
        CASE t = "campaigns" -> <<"campaign_id">>
          [] t = "assignments" -> <<"assignment_id">>
          [] t = "dispatches" -> <<"dispatch_id">>
          [] t = "planet_events" -> <<"event_id">>
          [] OTHER -> <<>>]

EmptyTable == [rows |-> <<>>, seq |-> 0]

InitDb == [t \in Tables \cup {"system_status"} |-> EmptyTable]

\* INSERT INTO t (...) VALUES (...): id from AUTOINCREMENT, timestamp from
\* DEFAULT CURRENT_TIMESTAMP
Insert(t, fields, ts) ==
    [rows |-> Append(t.rows, fields @@ [id |-> t.seq + 1, timestamp |-> ts]),
     seq |-> t.seq + 1]

\* INSERT OR REPLACE as a plain INSERT: no row is deleted
InsertKeepingOld(t, uniq, fields, ts) == Insert(t, fields, ts)

\* INSERT OR REPLACE INTO t: rows that conflict on a UNIQUE column are
\* deleted, then the new row is inserted
InsertOrReplace(t, uniq, fields, ts) ==
    LET Conflicts(r) == \E i \in 1..Len(uniq) : r[uniq[i]] = fields[uniq[i]]
        Kept(r) == ~Conflicts(r)
    IN Insert([t EXCEPT !.rows = SelectSeq(t.rows, Kept)], fields, ts)

\* ----------------------------------------------------------- ORDER BY
\* ORDER BY timestamp DESC answered by a backward scan of an index on
\* (timestamp): index entries are (timestamp, rowid), so equal timestamps
\* come out with the larger rowid first
IndexBefore(r, s) ==
    \/ r.timestamp > s.timestamp
    \/ r.timestamp = s.timestamp /\ r.id > s.id

\* ORDER BY timestamp DESC answered by a sorter over a rowid-ordered scan:
\* equal timestamps keep the scan order, the smaller rowid first
SorterBefore(r, s) ==
    \/ r.timestamp > s.timestamp
    \/ r.timestamp = s.timestamp /\ r.id < s.id

\* ORDER BY planet_index ASC answered by a scan of an index on
\* (planet_index): equal indexes come out with the smaller rowid first
PlanetIndexBefore(r, s) ==
    \/ r.planet_index < s.planet_index
    \/ r.planet_index = s.planet_index /\ r.id < s.id

\* whether r comes out before s under the named plan
Before(r, s, plan) ==
    CASE plan = "index-desc" -> IndexBefore(r, s)
      [] plan = "sorter-desc" -> SorterBefore(r, s)
      [] OTHER -> PlanetIndexBefore(r, s)

RankIn(rows, i, plan) ==
    Cardinality({j \in 1..Len(rows) : Before(rows[j], rows[i], plan)}) + 1

OrderRows(rows, plan) ==
    [k \in 1..Len(rows) |->
        rows[CHOOSE i \in 1..Len(rows) : RankIn(rows, i, plan) = k]]

\* tables without an index on timestamp: planet_status, planet_events
OrderByTimestampDescSorted(rows) == OrderRows(rows, "sorter-desc")

\* the same query on a table whose timestamp index is missing
OrderByTimestampDescUnindexed(rows) == OrderRows(rows, "sorter-desc")

\* tables with an index on timestamp: war_status, statistics, campaigns,
\* assignments, dispatches
OrderByTimestampDescIndexed(rows) == OrderRows(rows, "index-desc")

Limit(rows, k) == SubSeq(rows, 1, Min(k, Len(rows)))

Datas(rows) == [k \in 1..Len(rows) |-> JsonLoads(rows[k].data)]
\* ------------------------------------------------------------- payloads
\* The store never looks inside a blob except for the fields named below, so
\* every write carries a version number v that tells the writes apart.
Keys == 0..MaxKey

Blob(v) == [v |-> v]

\* expiresAt strings: ISO-8601 of second t, or text that does not parse
IsoTime(t) == [iso |-> t]
Unparseable == [junk |-> TRUE]

\* -------------------------------------------------------------- writes
\* save_war_status
SaveWarStatus(d, data, ts) ==
    [d EXCEPT !.war_status = Insert(@, [data |-> JsonDumps(data)], ts)]

\* save_statistics
SaveStatistics(d, data, ts) ==
    [d EXCEPT !.statistics = Insert(@, [data |-> JsonDumps(data)], ts)]

\* a save that keeps one planet_status row per planet index
SavePlanetStatusReplacing(d, planet_index, data, ts) ==
    [d EXCEPT !.planet_status =
        InsertOrReplace(@, <<"planet_index">>,
            [planet_index |-> planet_index, data |-> JsonDumps(data)], ts)]

\* save_planet_status: planet_status has no UNIQUE column, so OR REPLACE
\* never finds a conflicting row
SavePlanetStatus(d, planet_index, data, ts) ==
    [d EXCEPT !.planet_status =
        InsertOrReplace(@, UniqueColumn["planet_status"],
            [planet_index |-> planet_index, data |-> JsonDumps(data)], ts)]

\* _parse_expiration_time: a datetime, or None when the text does not parse
ParseExpirationTime(expiration_time) ==
    IF "iso" \in DOMAIN expiration_time THEN [dt |-> expiration_time.iso] ELSE None

\* the status save_campaign derives from expiresAt at time nowUtc
CampaignStatus(data, nowUtc) ==
    IF "expiresAt" \in DOMAIN data
    THEN LET exp_dt == ParseExpirationTime(data.expiresAt)
         IN IF exp_dt # None
            THEN (IF nowUtc < exp_dt.dt THEN "active" ELSE "expired")
            ELSE "active"
    ELSE "active"

\* a save that leaves the status of an already stored campaign as it is
SaveCampaignKeepingStatus(d, campaign_id, planet_index, data, ts) ==
    LET old == SelectSeq(d.campaigns.rows, LAMBDA r : r.campaign_id = campaign_id)
    IN [d EXCEPT !.campaigns =
        InsertOrReplace(@, UniqueColumn["campaigns"],
            [campaign_id |-> campaign_id, planet_index |-> planet_index,
             status |-> IF Len(old) > 0 THEN old[1].status
                        ELSE CampaignStatus(data, ts),
             data |-> JsonDumps(data)], ts)]

\* save_campaign
SaveCampaign(d, campaign_id, planet_index, data, ts) ==
    [d EXCEPT !.campaigns =
        InsertOrReplace(@, UniqueColumn["campaigns"],
            [campaign_id |-> campaign_id, planet_index |-> planet_index,
             status |-> CampaignStatus(data, ts), data |-> JsonDumps(data)], ts)]

\* the loop of save_assignments / save_dispatches over data[i..]: a record
\* whose id is missing or falsy is skipped
RECURSIVE SaveById(_, _, _, _, _)
SaveById(t, keycol, data, i, ts) ==
    IF i > Len(data) THEN t
    ELSE LET rec == data[i]
             t2 == IF Truthy(rec, "id")
                   THEN InsertOrReplace(t, <<keycol>>,
                            (keycol :> rec.id) @@ [data |-> JsonDumps(rec)], ts)
                   ELSE t
         IN SaveById(t2, keycol, data, i + 1, ts)

\* save_assignments
SaveAssignments(d, data, ts) ==
    [d EXCEPT !.assignments = SaveById(@, "assignment_id", data, 1, ts)]

\* save_dispatches
SaveDispatches(d, data, ts) ==
    [d EXCEPT !.dispatches = SaveById(@, "dispatch_id", data, 1, ts)]

\* a reader of the planet index that prefers the camelCase field
EventPlanetIndexCamelFirst(event) ==
    IF "planetIndex" \in DOMAIN event THEN event.planetIndex
    ELSE IF "planet_index" \in DOMAIN event THEN event.planet_index
    ELSE 0

\* save_planet_events reads planet_index, else planetIndex; event_type, else
\* eventType, else "unknown"
EventPlanetIndex(event) ==
    IF "planet_index" \in DOMAIN event THEN event.planet_index
    ELSE IF "planetIndex" \in DOMAIN event THEN event.planetIndex
    ELSE 0

EventType(event) ==
    IF "event_type" \in DOMAIN event THEN event.event_type
    ELSE IF "eventType" \in DOMAIN event THEN event.eventType
    ELSE "unknown"

\* whether save_planet_events stores the event: `if event_id and planet_index`
EventStored(event) == Truthy(event, "id") /\ EventPlanetIndex(event) # 0

RECURSIVE SaveEvents(_, _, _, _)
SaveEvents(t, data, i, ts) ==
    IF i > Len(data) THEN t
    ELSE LET event == data[i]
             t2 == IF EventStored(event)
                   THEN InsertOrReplace(t, UniqueColumn["planet_events"],
                            [event_id |-> event.id,
                             planet_index |-> EventPlanetIndex(event),
                             event_type |-> EventType(event),
                             data |-> JsonDumps(event)], ts)
                   ELSE t
         IN SaveEvents(t2, data, i + 1, ts)

\* save_planet_events
SavePlanetEvents(d, data, ts) ==
    [d EXCEPT !.planet_events = SaveEvents(@, data, 1, ts)]

\* -------------------------------------------------------------- reads
FirstData(rows) == IF Len(rows) > 0 THEN JsonLoads(rows[1].data) ELSE None

\* get_latest_war_status
GetLatestWarStatus(d) ==
    FirstData(Limit(OrderByTimestampDescIndexed(d.war_status.rows), 1))

\* get_latest_statistics
GetLatestStatistics(d) ==
    FirstData(Limit(OrderByTimestampDescIndexed(d.statistics.rows), 1))

WithTimestamps(rows) ==
    [k \in 1..Len(rows) |->
        [data |-> JsonLoads(rows[k].data), timestamp |-> rows[k].timestamp]]

\* get_statistics_history
GetStatisticsHistory(d, limit) ==
    WithTimestamps(Limit(OrderByTimestampDescIndexed(d.statistics.rows), limit))

\* WHERE planet_index = ?, through idx_planet_status_index, in rowid order
PlanetRows(d, planet_index) ==
    LET Match(r) == r.planet_index = planet_index
    IN SelectSeq(d.planet_status.rows, Match)

\* get_planet_status: fetchone() of a SELECT without ORDER BY, which the scan
\* of idx_planet_status_index answers with the row of the smallest rowid
GetPlanetStatus(d, planet_index) ==
    LET rows == PlanetRows(d, planet_index)
    IN IF Len(rows) > 0 THEN JsonLoads(rows[1].data) ELSE None

\* get_planet_status_history
GetPlanetStatusHistory(d, planet_index, limit) ==
    WithTimestamps(Limit(OrderByTimestampDescSorted(PlanetRows(d, planet_index)), limit))

\* get_assignment / get_latest_assignments
GetAssignment(d, limit) ==
    Datas(Limit(OrderByTimestampDescIndexed(d.assignments.rows), limit))

\* get_dispatches / get_latest_dispatches
GetDispatches(d, limit) ==
    Datas(Limit(OrderByTimestampDescIndexed(d.dispatches.rows), limit))

\* get_latest_planet_events: get_planet_events without a planet filter
GetLatestPlanetEvents(d, limit) ==
    Datas(Limit(OrderByTimestampDescSorted(d.planet_events.rows), limit))

\* a snapshot of the campaigns whose status column says active
GetLatestActiveCampaignsSnapshot(d) ==
    LET rows == SelectSeq(d.campaigns.rows, LAMBDA r : r.status = "active")
        picked == OrderByTimestampDescIndexed(rows)
    IN IF Len(picked) > 0 THEN JList(Datas(picked)) ELSE None

\* get_latest_campaigns_snapshot: the rows whose (campaign_id, timestamp) is
\* the MAX(timestamp) of their campaign_id, newest first; None when empty
GetLatestCampaignsSnapshot(d) ==
    LET rows == d.campaigns.rows
        Newest(r) == \A j \in 1..Len(rows) :
                        rows[j].campaign_id = r.campaign_id
                            => rows[j].timestamp <= r.timestamp
        picked == OrderByTimestampDescIndexed(SelectSeq(rows, Newest))
    IN IF Len(picked) > 0 THEN JList(Datas(picked)) ELSE None
\* whether the read-time filter of get_active_campaigns keeps the campaign:
\* expiresAt missing, or not parseable, or later than nowUtc
NotExpired(campaign, nowUtc) ==
    IF "expiresAt" \in DOMAIN campaign
    THEN LET exp_dt == ParseExpirationTime(campaign.expiresAt)
         IN exp_dt = None \/ nowUtc < exp_dt.dt
    ELSE TRUE

\* get_active_campaigns without the filter at read time
GetCampaignsSavedActive(d, nowUtc) ==
    LET Active(r) == r.status = "active"
    IN Datas(OrderByTimestampDescIndexed(SelectSeq(d.campaigns.rows, Active)))

\* get_active_campaigns, read at time nowUtc
GetActiveCampaigns(d, nowUtc) ==
    LET Active(r) == r.status = "active"
        campaigns == Datas(OrderByTimestampDescIndexed(
                                SelectSeq(d.campaigns.rows, Active)))
        Keep(campaign) == NotExpired(campaign, nowUtc)
    IN SelectSeq(campaigns, Keep)

\* ------------------------------------------------- the upstream client
\* HellDivers2Scraper.request_delay, seconds
request_delay == 2

\* the retry count the tests of _fetch_with_backoff configure
max_retries == 2

Ops == {"get_war_status", "get_campaign_info", "get_assignments",
        "get_dispatches", "get_planets", "get_planet_status",
        "get_statistics", "get_planet_events", "get_factions", "get_biomes"}

\* the path each operation requests
UrlOf(op) ==
    CASE op \in {"get_war_status", "get_statistics", "get_factions"} -> "/war"
      [] op = "get_campaign_info" -> "/campaigns"
      [] op = "get_assignments" -> "/assignments"
      [] op = "get_dispatches" -> "/dispatches"
      [] op \in {"get_planets", "get_biomes"} -> "/planets"
      [] op = "get_planet_status" -> "/planets/{planet_index}"
      [] OTHER -> "/planet-events"

\* The remote API: it answers 429 to the next `left` requests and 200 after
\* that (kind "ok"), or it answers 500, or the request times out, or the
\* connection fails. `shape` selects the body of a 200.
Shapes == {"full", "bare", "malformed", "wrongtype"}

UpstreamStates ==
    [kind : {"ok"}, left : 0..(max_retries + 1), shape : Shapes]
        \cup [kind : {"error", "timeout", "connection"}, left : {0}, shape : {"bare"}]

Healthy == [kind |-> "ok", left |-> 0, shape |-> "full"]

NoCall == [op |-> "none"]

\* no writer has a transaction open and nothing was read
NoTx == [lock |-> "none"]

\* the JSON of a 200 that has the wrong type for its operation: a list where
\* an object is expected, an object or a string where a list is expected
WrongType(url) ==
    CASE url \in {"/war", "/planets/{planet_index}"} -> JList(<<JString("not")>>)
      [] url = "/campaigns" -> JString("not a list")
      [] OTHER -> [not |-> JString("a list")]

\* the JSON a 200 carries: "full" is a populated payload, "bare" an empty
\* one, "malformed" a list with an element (or a biome) of the wrong type,
\* "wrongtype" a value of the wrong type
Body(url, shape) ==
    CASE shape = "wrongtype" -> WrongType(url)
      [] url = "/war" ->
            (IF shape = "bare" THEN [war_id |-> 1]
             ELSE [war_id |-> 1, statistics |-> Blob(1),
                   factions |-> JList(<<[name |-> "Humans"]>>)])
      [] url = "/planets" ->
            (CASE shape = "full" ->
                    JList(<<[index |-> 0, biome |-> [name |-> "Desert"]],
                            [name |-> "no index"],
                            [index |-> 1, biome |-> [name |-> "Desert"]],
                            [index |-> 2, biome |-> [name |-> "Desert"]]>>)
               [] shape = "malformed" ->
                    JList(<<[index |-> 1, biome |-> JString("Desert")],
                            JScalar(7),
                            [index |-> 2, biome |-> [name |-> "Swamp"]]>>)
               [] OTHER -> JList(<<>>))
      [] url = "/planets/{planet_index}" -> [index |-> 1] @@ Blob(1)
      [] url = "/campaigns" ->
            (CASE shape = "full" ->
                    JList(<<[id |-> 1, planet |-> [index |-> 1]],
                            [id |-> 2, planet |-> [index |-> 2]]>>)
               [] shape = "malformed" ->
                    JList(<<[id |-> 1, planet |-> [index |-> 1]],
                            [id |-> 2, planet |-> None],
                            [id |-> 3, planet |-> [index |-> 2]]>>)
               [] OTHER -> JList(<<>>))
      [] url = "/planet-events" ->
            (IF shape = "bare" THEN JList(<<>>)
             ELSE JList(<<[id |-> 1, planetIndex |-> 1, eventType |-> "storm"]>>))
      [] OTHER ->
            (IF shape = "bare" THEN JList(<<>>)
             ELSE JList(<<[id |-> 1] @@ Blob(1), [id |-> 2] @@ Blob(1)>>))

\* session.get(url): a response with a status, or an exception
Response(u, url) ==
    CASE u.kind = "timeout" -> [exc |-> "Timeout"]
      [] u.kind = "connection" -> [exc |-> "ConnectionError"]
      [] u.kind = "error" -> [status |-> 500]
      [] u.left > 0 -> [status |-> 429]
      [] OTHER -> [status |-> 200, body |-> Body(url, u.shape)]

\* the remote API after it answered one request
Answered(u) == IF u.left > 0 THEN [u EXCEPT !.left = @ - 1] ELSE u

\* session.get raised, or raise_for_status() raises HTTPError (4xx, 5xx)
RaisesRequestException(resp) == "exc" \in DOMAIN resp \/ resp.status >= 400

\* a client that takes every response for a success
FetchUnchecked(resp) ==
    IF "exc" \in DOMAIN resp THEN None
    ELSE IF "body" \in DOMAIN resp THEN resp.body
    ELSE JList(<<>>)

\* try: response.raise_for_status(); return response.json()
\* except requests.RequestException: return None
Fetch(resp) == IF RaisesRequestException(resp) THEN None ELSE resp.body

\* get_statistics / get_factions: the sub-field of the war status
SubField(war_data, key) ==
    IF war_data # None /\ key \in DOMAIN war_data THEN war_data[key] ELSE None

\* the biome objects of planets[i..], one per name not in `seen`
RECURSIVE UniqueBiomes(_, _, _)
UniqueBiomes(planets, i, seen) ==
    IF i > Len(planets) THEN <<>>
    ELSE LET planet == planets[i]
             fresh == /\ "biome" \in DOMAIN planet
                      /\ IsObject(planet.biome)
                      /\ "name" \in DOMAIN planet.biome
                      /\ planet.biome.name \notin seen
         IN IF fresh
            THEN <<planet.biome>> \o
                    UniqueBiomes(planets, i + 1, seen \cup {planet.biome.name})
            ELSE UniqueBiomes(planets, i + 1, seen)

\* the exception the loop of get_biomes raises over planets[i..], "none"
\* without one: `"biome" in planet` raises TypeError on a number or null (on
\* a string it is a substring test, on a list a membership test), and
\* planet["biome"].get raises AttributeError on a biome that is no object
RECURSIVE BiomesLoopRaises(_, _)
BiomesLoopRaises(planets, i) ==
    IF i > Len(planets) THEN "none"
    ELSE LET planet == planets[i]
         IN IF DOMAIN planet \cap {"scalar", "none"} # {} THEN "TypeError"
            ELSE IF /\ IsObject(planet)
                    /\ "biome" \in DOMAIN planet
                    /\ ~IsObject(planet.biome)
                 THEN "AttributeError"
            ELSE BiomesLoopRaises(planets, i + 1)

\* get_biomes on what get_planets returned; TypeError and AttributeError are
\* no RequestException and leave the operation. A value that is no list: an
\* object is iterated by its keys and a string by its characters (none holds
\* "biome" here), a number other than 0 is not iterable
Biomes(planets) ==
    IF planets = None THEN None
    ELSE IF "list" \notin DOMAIN planets
         THEN (IF "scalar" \in DOMAIN planets /\ planets.scalar # 0
               THEN Raised("TypeError") ELSE None)
    ELSE IF Len(planets.list) = 0 THEN None
    ELSE IF BiomesLoopRaises(planets.list, 1) # "none"
         THEN Raised(BiomesLoopRaises(planets.list, 1))
    ELSE IF Len(UniqueBiomes(planets.list, 1, {})) = 0 THEN None
    ELSE JList(UniqueBiomes(planets.list, 1, {}))

\* what the operation returns for the response its one request got
Result(op, resp) ==
    CASE op = "get_statistics" -> SubField(Fetch(resp), "statistics")
      [] op = "get_factions" -> SubField(Fetch(resp), "factions")
      [] op = "get_biomes" -> Biomes(Fetch(resp))
      [] OTHER -> Fetch(resp)

\* _rate_limit without the sleep
NoDelay(elapsed) == 0

\* _rate_limit: the seconds to sleep when `elapsed` have passed
RateLimitDelay(elapsed) ==
    IF elapsed < request_delay THEN request_delay - elapsed ELSE 0

\* the clock of a client run ends here
MaxClock == 7

\* the two HellDivers2Scraper instances: app.scraper and collector.scraper
Clients == {"app", "collector"}

\* _rate_limit of client c, called now: the time after the sleep, which is
\* the new last_request_time and the time the request is sent; time.sleep
\* returns `late` seconds late
RequestTime(c, late) ==
    LET delay == RateLimitDelay(now - last_request_time[c])
    IN now + delay + (IF delay > 0 THEN late ELSE 0)

\* one operation of client c: _rate_limit(), one session.get(), the result
ClientCall(c, op) ==
    LET resp == Response(upstream, UrlOf(op))
    IN \E late \in 0..1 :
        LET wake == RequestTime(c, late)
        IN /\ wake <= MaxClock
           /\ now' = wake
           /\ last_request_time' = [last_request_time EXCEPT ![c] = wake]
           /\ upstream' = Answered(upstream)
           /\ lastCall' = [op |-> op, upstream |-> upstream, url |-> UrlOf(op),
                           previous |-> last_request_time[c], called |-> now,
                           before |-> (IF lastCall = NoCall THEN <<>>
                                       ELSE lastCall.sent),
                           sent |-> <<wake>>, result |-> Result(op, resp)]
           /\ UNCHANGED <<storeVars, serviceVars>>

Call == \E op \in Ops : ClientCall("app", op)

\* the remote API changes its behaviour
UpstreamChanges ==
    /\ upstream' \in UpstreamStates \ {upstream}
    /\ UNCHANGED <<now, storeVars, last_request_time, lastCall, serviceVars>>

ClientTick ==
    /\ now < MaxClock
    /\ now' = now + 1
    /\ UNCHANGED <<storeVars, clientVars, serviceVars>>

\* DataCollector.__init__, and no request handled yet
NoCycle == [n |-> 0]
NoLifecycle == [op |-> "none"]
NoResponse == [endpoint |-> "none", served |-> 0]

InitService ==
    /\ is_running = FALSE
    /\ jobs = 0
    /\ pc = 0
    /\ cycle = NoCycle
    /\ changes = 0
    /\ lastLifecycle = NoLifecycle
    /\ lastResponse = NoResponse

\* time.time() at construction is far more than request_delay past the epoch
InitClient ==
    /\ now = request_delay
    /\ db = InitDb
    /\ underTest = "none"
    /\ tx = NoTx
    /\ lastStoreCall = NoCall
    /\ written = [t \in KeyedTables |-> <<>>]
    /\ last_request_time = [c \in Clients |-> 0]
    /\ upstream \in UpstreamStates
    /\ lastCall = NoCall
    /\ InitService

NextClient ==
    \/ Call
    \/ UpstreamChanges
    \/ ClientTick

SpecClient == InitClient /\ [][NextClient]_vars

\* ----------------------------------------------------- claims: the client
\* C2: a request of the client starts at least request_delay after the
\* client's previous request; a call made sooner sleeps at least the
\* remainder, a call made later does not sleep; last_request_time is the time
\* of the last request after every call.
C2_MinimumInterval ==
    lastCall # NoCall =>
        LET elapsed == lastCall.called - lastCall.previous
            sentAt == lastCall.sent[1]
        IN /\ Len(lastCall.before) > 0
                => sentAt - lastCall.before[Len(lastCall.before)] >= request_delay
           /\ elapsed < request_delay
                => sentAt - lastCall.called >= request_delay - elapsed
           /\ elapsed >= request_delay => sentAt = lastCall.called
           /\ last_request_time["app"] = lastCall.sent[Len(lastCall.sent)]

\* a second call made one second after the first request, which slept
C2_Witness ==
    /\ lastCall # NoCall
    /\ Len(lastCall.before) > 0
    /\ lastCall.called - lastCall.before[1] = 1
    /\ lastCall.sent[1] > lastCall.called

\* C3: an operation that meets k 429 responses followed by a 200, with
\* k < max_retries, returns what the 200 carries; when more than max_retries
\* 429 responses are in the way it sends at most max_retries + 1 requests and
\* returns None.
C3_RetriesOn429 ==
    (lastCall # NoCall /\ lastCall.upstream.kind = "ok") =>
        LET k == lastCall.upstream.left
            ok == [status |-> 200,
                   body |-> Body(lastCall.url, lastCall.upstream.shape)]
        IN /\ k < max_retries => lastCall.result = Result(lastCall.op, ok)
           /\ k > max_retries
                => lastCall.result = None /\ Len(lastCall.sent) <= max_retries + 1

\* C4: an operation whose request meets a non-429 error status, a timeout or
\* a connection error sends exactly one request and returns None.
C4_NoRetryOnError ==
    (lastCall # NoCall /\ lastCall.upstream.kind \in {"error", "timeout", "connection"})
        => Len(lastCall.sent) = 1 /\ lastCall.result = None

\* get_war_status met a 500
C4_Witness ==
    /\ lastCall # NoCall
    /\ lastCall.op = "get_war_status"
    /\ lastCall.upstream.kind = "error"
    /\ lastCall.result = None

\* C13: get_war_status, get_planets and get_campaign_info return None when
\* the 200 they receive carries a value of the wrong type (a list for the war
\* status, an object or a string for the planets and the campaigns).
C13_WrongShapeIsUnavailable ==
    (/\ lastCall # NoCall
     /\ lastCall.op \in {"get_war_status", "get_planets", "get_campaign_info"}
     /\ lastCall.upstream.kind = "ok" /\ lastCall.upstream.left = 0
     /\ lastCall.upstream.shape = "wrongtype")
        => lastCall.result = None

\* C14: no operation of the client raises to its caller, whatever the remote
\* API answers: the result is data or None.
C14_ClientNeverRaises ==
    lastCall # NoCall => ~HasRaised(lastCall.result)

\* the planets of a list that carry a biome object with a name
NamedBiomePlanets(planets) ==
    {i \in 1..Len(planets) :
        /\ IsObject(planets[i])
        /\ "biome" \in DOMAIN planets[i]
        /\ IsObject(planets[i].biome)
        /\ "name" \in DOMAIN planets[i].biome}

\* C34: get_biomes returns None when the planets fetch gave None, an empty
\* list, or a list in which no planet carries a named biome; otherwise it
\* returns one biome object per distinct name, the object of the first
\* planet that carries the name.
C34_BiomesOnePerDistinctName ==
    (lastCall # NoCall /\ lastCall.op = "get_biomes") =>
        LET planets == Fetch(Response(lastCall.upstream, "/planets"))
        IN IF planets = None THEN lastCall.result = None
           ELSE "list" \in DOMAIN planets =>
                LET named == NamedBiomePlanets(planets.list)
                    names == {planets.list[i].biome.name : i \in named}
                    First(n) == CHOOSE i \in named :
                        /\ planets.list[i].biome.name = n
                        /\ \A j \in named :
                            planets.list[j].biome.name = n => i <= j
                IN IF named = {} THEN lastCall.result = None
                   ELSE /\ "list" \in DOMAIN lastCall.result
                        /\ Len(lastCall.result.list) = Cardinality(names)
                        /\ \A n \in names :
                            \E k \in 1..Len(lastCall.result.list) :
                                lastCall.result.list[k]
                                    = planets.list[First(n)].biome

\* ------------------------------------------------- the store, exercised
\* A store run writes one table (underTest): no statement of database.py
\* names two tables, so the tables do not interact.
Versioned(t) == db[t].seq < MaxRows

\* a batch element: id k, or no id at all when k < 0
MkRecord(k, v) == IF k < 0 THEN Blob(v) ELSE [id |-> k] @@ Blob(v)

IdChoices == -1..MaxKey

Batches == UNION {[1..n -> IdChoices] : n \in 0..MaxBatch}

MkBatch(ids, base) == [i \in 1..Len(ids) |-> MkRecord(ids[i], base + i)]

EventShapes == {"snake", "camel", "both", "untyped", "noplanet"}

MkEvent(k, v, shape) ==
    MkRecord(k, v) @@
        CASE shape = "snake" -> [planet_index |-> 1, event_type |-> "storm"]
          [] shape = "camel" -> [planetIndex |-> 1, eventType |-> "storm"]
          [] shape = "both" -> [planet_index |-> 1, event_type |-> "storm",
                                planetIndex |-> 2, eventType |-> "quake"]
          [] shape = "untyped" -> [planetIndex |-> 1]
          [] OTHER -> [noise |-> 0]

MkEventBatch(ids, base, shape) ==
    [i \in 1..Len(ids) |-> MkEvent(ids[i], base + i, shape)]

HasId(rec) == Truthy(rec, "id")

\* whether the batch save of table t executes an INSERT for rec
Stored(t, rec) == IF t = "planet_events" THEN EventStored(rec) ELSE HasId(rec)

\* the last record of a batch that is stored in t under key k
LastFor(t, data, k) ==
    data[CHOOSE i \in 1..Len(data) :
            /\ Stored(t, data[i]) /\ data[i].id = k
            /\ \A j \in (i + 1)..Len(data) :
                    ~(Stored(t, data[j]) /\ data[j].id = k)]

Remember(t, data) ==
    LET ks == {data[i].id : i \in {j \in 1..Len(data) : Stored(t, data[j])}}
    IN [written EXCEPT ![t] = [k \in ks |-> LastFor(t, data, k)] @@ @]

Tick ==
    /\ now < MaxTime
    /\ now' = now + 1
    /\ UNCHANGED <<storeVars, clientVars, serviceVars>>

StoreSaveWarStatus ==
    /\ underTest = "war_status" /\ Versioned("war_status")
    /\ db' = SaveWarStatus(db, Blob(db.war_status.seq + 1), now)
    /\ UNCHANGED <<now, underTest, tx, written, lastStoreCall, clientVars, serviceVars>>

StoreSaveStatistics ==
    /\ underTest = "statistics" /\ Versioned("statistics")
    /\ db' = SaveStatistics(db, Blob(db.statistics.seq + 1), now)
    /\ UNCHANGED <<now, underTest, tx, written, lastStoreCall, clientVars, serviceVars>>

\* the biome of the v-th payload written, for a planet index: an object
\* without a name, an object with a name, or a string
BiomeChoice(planet_index, v) ==
    <<"nameless", "Desert", "Desert", "string", "Swamp">>
        [((planet_index + v - 1) % 5) + 1]

WithBiome(planet, choice, v) ==
    CASE choice = "absent" -> planet
      [] choice = "string" -> planet @@ [biome |-> JString("Desert")]
      [] choice = "nameless" -> planet @@ [biome |-> [slug |-> v]]
      [] OTHER -> planet @@ [biome |-> [name |-> choice, slug |-> v]]

StoreSavePlanetStatus ==
    /\ underTest = "planet_status" /\ Versioned("planet_status")
    /\ \E planet_index \in Keys :
        LET v == db.planet_status.seq + 1
        IN db' = SavePlanetStatus(db, planet_index,
                    WithBiome([index |-> planet_index] @@ Blob(v),
                              BiomeChoice(planet_index, v), v),
                    now)
    /\ UNCHANGED <<now, underTest, tx, written, lastStoreCall, clientVars, serviceVars>>

\* expiresAt: missing (None), unparseable, or the ISO time of a second that
\* saves can precede and follow
ExpiryChoices == {None, Unparseable, IsoTime(MaxTime - 1)}

MkCampaign(campaign_id, v, e) ==
    IF e = None THEN [id |-> campaign_id] @@ Blob(v)
    ELSE [id |-> campaign_id, expiresAt |-> e] @@ Blob(v)

StoreSaveCampaign ==
    /\ underTest = "campaigns" /\ Versioned("campaigns")
    /\ \E campaign_id \in Keys, e \in ExpiryChoices :
        LET data == MkCampaign(campaign_id, db.campaigns.seq + 1, e)
        IN /\ db' = SaveCampaign(db, campaign_id, 1, data, now)
           /\ written' = [written EXCEPT !.campaigns = (campaign_id :> data) @@ @]
    /\ UNCHANGED <<now, underTest, tx, lastStoreCall, clientVars, serviceVars>>

StoreSaveAssignments ==
    /\ underTest = "assignments"
    /\ \E ids \in Batches :
        LET data == MkBatch(ids, db.assignments.seq)
        IN /\ db.assignments.seq + Len(ids) <= MaxRows
           /\ db' = SaveAssignments(db, data, now)
           /\ written' = Remember("assignments", data)
    /\ UNCHANGED <<now, underTest, tx, lastStoreCall, clientVars, serviceVars>>

StoreSaveDispatches ==
    /\ underTest = "dispatches"
    /\ \E ids \in Batches :
        LET data == MkBatch(ids, db.dispatches.seq)
        IN /\ db.dispatches.seq + Len(ids) <= MaxRows
           /\ db' = SaveDispatches(db, data, now)
           /\ written' = Remember("dispatches", data)
    /\ UNCHANGED <<now, underTest, tx, lastStoreCall, clientVars, serviceVars>>

StoreSavePlanetEvents ==
    /\ underTest = "planet_events"
    /\ \E ids \in Batches, shape \in EventShapes :
        LET data == MkEventBatch(ids, db.planet_events.seq, shape)
        IN /\ db.planet_events.seq + Len(ids) <= MaxRows
           /\ db' = SavePlanetEvents(db, data, now)
           /\ written' = Remember("planet_events", data)
    /\ UNCHANGED <<now, underTest, tx, lastStoreCall, clientVars, serviceVars>>

InitStore ==
    /\ now = 0
    /\ db = InitDb
    /\ underTest \in Tables
    /\ tx = NoTx
    /\ lastStoreCall = NoCall
    /\ written = [t \in KeyedTables |-> <<>>]
    /\ last_request_time = [c \in Clients |-> 0]
    /\ upstream = Healthy
    /\ lastCall = NoCall
    /\ InitService

NextStore ==
    \/ Tick
    \/ StoreSaveWarStatus
    \/ StoreSaveStatistics
    \/ StoreSavePlanetStatus
    \/ StoreSaveCampaign
    \/ StoreSaveAssignments
    \/ StoreSaveDispatches
    \/ StoreSavePlanetEvents

SpecStore == InitStore /\ [][NextStore]_vars
\* ------------------------------------------------------ claims: the store
KeyOf(t, r) == r[UniqueColumn[t][1]]

\* what a read of the whole keyed table t returns
ReadAll(t) ==
    CASE t = "campaigns" ->
            (IF Len(db.campaigns.rows) = 0 THEN <<>>
             ELSE GetLatestCampaignsSnapshot(db).list)
      [] t = "assignments" -> GetAssignment(db, MaxRows + MaxBatch)
      [] t = "dispatches" -> GetDispatches(db, MaxRows + MaxBatch)
      [] OTHER -> GetLatestPlanetEvents(db, MaxRows + MaxBatch)

InsertedLast(rows, n) ==
    [k \in 1..n |->
        LET r == CHOOSE r \in {rows[i] : i \in 1..Len(rows)} :
                    Cardinality({j \in 1..Len(rows) : rows[j].id > r.id}) = k - 1
        IN [data |-> JsonLoads(r.data), timestamp |-> r.timestamp]]

NewestFirst(history, rows, K) ==
    /\ Len(history) = K
    /\ history = InsertedLast(rows, K)
    /\ \A i \in 1..(K - 1) : history[i].timestamp > history[i + 1].timestamp

\* the ids the records of a batch carry, and those among them that also
\* carry a planet index under one of its two names
IdsCarried(data) ==
    {data[i].id : i \in {j \in 1..Len(data) : "id" \in DOMAIN data[j]}}
EventIdsCarried(data) ==
    {data[i].id : i \in {j \in 1..Len(data) :
        /\ "id" \in DOMAIN data[j]
        /\ {"planet_index", "planetIndex"} \cap DOMAIN data[j] # {}}}

\* the keys a keyed table holds
KeysStored(t, d) == {KeyOf(t, d[t].rows[i]) : i \in 1..Len(d[t].rows)}

\* C31: a call of save_assignments, save_dispatches or save_planet_events
\* that writes leaves in the table a row for every record of its batch that carries an id
\* (for events: an id and a planet index), whatever other records the batch
\* holds.
C31_BatchStoresEveryIdentifiedRecord ==
    [][db' # db => \A ids \in Batches :
        /\ (/\ underTest = "assignments"
            /\ db' = SaveAssignments(db, MkBatch(ids, db.assignments.seq), now))
                => IdsCarried(MkBatch(ids, db.assignments.seq))
                        \subseteq KeysStored("assignments", db')
        /\ (/\ underTest = "dispatches"
            /\ db' = SaveDispatches(db, MkBatch(ids, db.dispatches.seq), now))
                => IdsCarried(MkBatch(ids, db.dispatches.seq))
                        \subseteq KeysStored("dispatches", db')
        /\ \A shape \in EventShapes :
            LET data == MkEventBatch(ids, db.planet_events.seq, shape)
            IN (/\ underTest = "planet_events"
                /\ db' = SavePlanetEvents(db, data, now))
                    => EventIdsCarried(data)
                            \subseteq KeysStored("planet_events", db')]_vars

\* C35: every planet_events row holds, as planet_index, the planet_index
\* field of its event or, without one, the planetIndex field; and, as
\* event_type, the event_type field or, without one, the eventType field or,
\* without either, "unknown".
C35_EventFieldsNormalized ==
    \A i \in 1..Len(db.planet_events.rows) :
        LET row == db.planet_events.rows[i]
            event == JsonLoads(row.data)
            names == DOMAIN event
        IN /\ "planet_index" \in names => row.planet_index = event.planet_index
           /\ ("planet_index" \notin names /\ "planetIndex" \in names)
                => row.planet_index = event.planetIndex
           /\ "event_type" \in names => row.event_type = event.event_type
           /\ ("event_type" \notin names /\ "eventType" \in names)
                => row.event_type = event.eventType
           /\ names \cap {"event_type", "eventType"} = {}
                => row.event_type = "unknown"

\* two events are stored: one came with both namings and different values,
\* the other with a camelCase planet index and no type
C35_Witness ==
    /\ Len(db.planet_events.rows) = 2
    /\ \E i, k \in 1..2 :
        LET e == [n \in {i, k} |-> JsonLoads(db.planet_events.rows[n].data)]
        IN /\ {"planet_index", "planetIndex", "event_type", "eventType"}
                    \subseteq DOMAIN e[i]
           /\ e[i].planet_index # e[i].planetIndex
           /\ e[i].event_type # e[i].eventType
           /\ DOMAIN e[k] \cap {"planet_index", "event_type", "eventType"} = {}
           /\ db.planet_events.rows[k].planet_index = e[k].planetIndex
           /\ db.planet_events.rows[k].event_type = "unknown"

\* C37: get_planet_status(index) returns None when planet_status has no row
\* for the index, and otherwise the data of the save made last for the index.
C37_PlanetStatusIsLatestSave ==
    \A planet_index \in Keys :
        LET rows == PlanetRows(db, planet_index)
        IN GetPlanetStatus(db, planet_index) =
            (IF Len(rows) = 0 THEN None ELSE JsonLoads(rows[Len(rows)].data))

\* C9: after N writes to statistics, or to planet_status for one planet
\* index, the history with limit K <= N is exactly the K rows inserted last,
\* newest first, in strictly decreasing timestamp order.
C9_HistoryNewestFirst ==
    /\ \A K \in 1..Len(db.statistics.rows) :
        NewestFirst(GetStatisticsHistory(db, K), db.statistics.rows, K)
    /\ \A planet_index \in Keys :
        \A K \in 1..Len(PlanetRows(db, planet_index)) :
            NewestFirst(GetPlanetStatusHistory(db, planet_index, K),
                        PlanetRows(db, planet_index), K)

\* C10: get_latest_war_status and get_latest_statistics return the payload of
\* the row inserted last into their table, also among equal timestamps, and
\* None exactly when the table is empty.
C10_LatestIsLastInserted ==
    /\ GetLatestWarStatus(db) =
        (IF Len(db.war_status.rows) = 0 THEN None
         ELSE InsertedLast(db.war_status.rows, 1)[1].data)
    /\ GetLatestStatistics(db) =
        (IF Len(db.statistics.rows) = 0 THEN None
         ELSE InsertedLast(db.statistics.rows, 1)[1].data)

\* three rows, the last two written within one second, the last one returned
C10_Witness ==
    /\ Len(db.war_status.rows) = 3
    /\ db.war_status.rows[2].timestamp = db.war_status.rows[3].timestamp
    /\ db.war_status.rows[1].timestamp < db.war_status.rows[2].timestamp
    /\ GetLatestWarStatus(db) = Blob(3)

\* the campaign rows of d with the given id
CampaignRows(d, campaign_id) ==
    SelectSeq(d.campaigns.rows, LAMBDA r : r.campaign_id = campaign_id)

\* the status the claim gives a campaign saved at second ts: active without
\* expiresAt, with one that does not parse, or with a later one; expired with
\* an earlier one
StatusAsClaimed(status, data, ts) ==
    IF "expiresAt" \notin DOMAIN data \/ "iso" \notin DOMAIN data.expiresAt
    THEN status = "active"
    ELSE /\ ts < data.expiresAt.iso => status = "active"
         /\ ts > data.expiresAt.iso => status = "expired"

\* C32: the status of every campaign row is the one its expiresAt gives at
\* the second of its save (absent, unparseable or later: active; earlier:
\* expired), and a save of a stored id whose expiresAt has passed turns the
\* status of the id from active to expired.
C32_StatusRecomputedOnSave ==
    /\ [](\A i \in 1..Len(db.campaigns.rows) :
            LET row == db.campaigns.rows[i]
            IN StatusAsClaimed(row.status, JsonLoads(row.data), row.timestamp))
    /\ [][\A k \in Keys :
            LET old == CampaignRows(db, k)
                new == CampaignRows(db', k)
            IN (/\ Len(old) = 1 /\ Len(new) = 1
                /\ new[1].id # old[1].id
                /\ "expiresAt" \in DOMAIN JsonLoads(new[1].data)
                /\ "iso" \in DOMAIN JsonLoads(new[1].data).expiresAt
                /\ JsonLoads(new[1].data).expiresAt.iso < now)
                    => new[1].status = "expired"]_vars

\* a campaign id was saved twice, the second time after its expiresAt had
\* passed, and its row says expired
C32_Witness ==
    /\ Len(db.campaigns.rows) = 1
    /\ db.campaigns.seq = 2
    /\ db.campaigns.rows[1].status = "expired"
    /\ JsonLoads(db.campaigns.rows[1].data).expiresAt = IsoTime(MaxTime - 1)
    /\ db.campaigns.rows[1].timestamp = MaxTime

\* C11: read at time now, get_active_campaigns returns, once each, exactly
\* the stored campaigns whose persisted status is active and whose expiresAt
\* is absent, unparseable or later than now; these are the campaigns last
\* written whose expiresAt is not a parseable time at or before now, so a
\* campaign saved as active whose expiry has passed since is not returned.
C11_ActiveCampaignsAtReadTime ==
    LET got == GetActiveCampaigns(db, now)
        rows == db.campaigns.rows
        Passed(c) == /\ "expiresAt" \in DOMAIN c
                     /\ "iso" \in DOMAIN c.expiresAt
                     /\ c.expiresAt.iso <= now
        stored == {r \in {rows[i] : i \in 1..Len(rows)} :
                        r.status = "active" /\ ~Passed(JsonLoads(r.data))}
    IN /\ {got[i] : i \in 1..Len(got)} = {JsonLoads(r.data) : r \in stored}
       /\ Len(got) = Cardinality(stored)
       /\ {got[i] : i \in 1..Len(got)} =
            {written.campaigns[k] :
                k \in {j \in DOMAIN written.campaigns : ~Passed(written.campaigns[j])}}

\* a campaign stored as active whose expiry has passed is left out, while a
\* campaign without expiry is returned
C11_Witness ==
    /\ \E i \in 1..Len(db.campaigns.rows) :
        /\ db.campaigns.rows[i].status = "active"
        /\ "expiresAt" \in DOMAIN JsonLoads(db.campaigns.rows[i].data)
        /\ JsonLoads(db.campaigns.rows[i].data).expiresAt = IsoTime(now)
    /\ Len(GetActiveCampaigns(db, now)) = 1
    /\ Len(db.campaigns.rows) = 2

\* ------------------------------------------------------- the store, failing
\* a connection that keeps the statements executed before the exception
KeepStatements(before, partial) == partial

\* `with sqlite3.connect(...) as conn:` left by an exception: the connection
\* rolls back what the statements of the block did
RollBack(before, partial) == before

\* the save_* call of table t on the records `data`
SaveTo(t, d, data, ts) ==
    CASE t = "war_status" -> SaveWarStatus(d, data[1], ts)
      [] t = "statistics" -> SaveStatistics(d, data[1], ts)
      [] t = "planet_status" -> SavePlanetStatus(d, data[1].id, data[1], ts)
      [] t = "campaigns" -> SaveCampaign(d, data[1].id, 1, data[1], ts)
      [] t = "assignments" -> SaveAssignments(d, data, ts)
      [] t = "dispatches" -> SaveDispatches(d, data, ts)
      [] OTHER -> SavePlanetEvents(d, data, ts)

\* a save_* call in which an exception is raised: by sqlite3.connect (k = 0),
\* while record k is handled, after the statements of the records before it
\* (1 <= k <= Len(data)), or by conn.commit() (k = Len(data) + 1); the except
\* branch returns False
SaveFailing(t, d, data, ts, k) ==
    LET done == SubSeq(data, 1, Min(k - 1, Len(data)))
        partial == IF Len(done) = 0 THEN d ELSE SaveTo(t, d, done, ts)
    IN [d |-> RollBack(d, partial), ok |-> FALSE, partial |-> partial]

\* the reads: the declared return type (List[Dict], or Optional[...]) and
\* the table read
Reads ==
    [get_active_campaigns |-> [returns |-> "list", table |-> "campaigns"],
     get_assignment |-> [returns |-> "list", table |-> "assignments"],
     get_dispatches |-> [returns |-> "list", table |-> "dispatches"],
     get_planet_events |-> [returns |-> "list", table |-> "planet_events"],
     get_planet_status_history |->
        [returns |-> "list", table |-> "planet_status"],
     get_statistics_history |-> [returns |-> "list", table |-> "statistics"],
     get_latest_war_status |-> [returns |-> "value", table |-> "war_status"],
     get_latest_statistics |-> [returns |-> "value", table |-> "statistics"],
     get_planet_status |-> [returns |-> "value", table |-> "planet_status"],
     get_latest_planets_snapshot |->
        [returns |-> "value", table |-> "planet_status"],
     get_latest_campaigns_snapshot |->
        [returns |-> "value", table |-> "campaigns"],
     get_latest_factions_snapshot |->
        [returns |-> "value", table |-> "war_status"],
     get_latest_biomes_snapshot |->
        [returns |-> "value", table |-> "planet_status"],
     get_system_status |-> [returns |-> "value", table |-> "system_status"]]

\* the except branch of a read: `return []` or `return None`
OnReadError(read) ==
    IF read \in {"get_active_campaigns", "get_assignment", "get_dispatches",
                 "get_planet_events", "get_planet_status_history",
                 "get_statistics_history"}
    THEN JList(<<>>)
    ELSE None

\* a save_* call on the table under test fails
StoreSaveFails ==
    /\ \E ids \in Batches \ {<<>>} :
        \E k \in 0..(Len(ids) + 1) :
            LET t == underTest
                data == IF t = "planet_events"
                        THEN MkEventBatch(ids, db[t].seq, "camel")
                        ELSE MkBatch(ids, db[t].seq)
                out == SaveFailing(t, db, data, now, k)
            IN /\ db[t].seq + Len(ids) <= MaxRows
               /\ t \notin {"assignments", "dispatches", "planet_events"}
                    => (Len(ids) = 1 /\ ids[1] > 0)
               /\ db' = out.d
               /\ lastStoreCall' = [op |-> "save", failed_at |-> k,
                                    dirty |-> out.partial # db, ok |-> out.ok]
    /\ UNCHANGED <<now, underTest, tx, written, clientVars, serviceVars>>

\* a read of the table under test fails: sqlite3.connect or a statement
\* raises
StoreReadFails ==
    /\ \E read \in {r \in DOMAIN Reads : Reads[r].table = underTest} :
        lastStoreCall' = [op |-> "read", read |-> read,
                          result |-> OnReadError(read)]
    /\ UNCHANGED <<now, db, underTest, tx, written, clientVars, serviceVars>>

NextStoreFailure ==
    \/ NextStore
    \/ StoreSaveFails
    \/ StoreReadFails

SpecStoreFailure == InitStore /\ [][NextStoreFailure]_vars

\* ---------------------------------------------- claims: the store, failing
\* C18: a save_* call that fails returns false and leaves every table as it
\* was before the call, whatever it had executed; a read that fails returns
\* the empty list when it is declared to return a list and null otherwise.
C18_StoreFailureIsContained ==
    [][lastStoreCall' # lastStoreCall =>
        /\ db' = db
        /\ lastStoreCall'.op = "save" => lastStoreCall'.ok = FALSE
        /\ lastStoreCall'.op = "read" =>
            lastStoreCall'.result =
                (IF Reads[lastStoreCall'.read].returns = "list"
                 THEN JList(<<>>) ELSE None)]_vars

\* a batch save failed on its second record after the INSERT of the first
C18_Witness ==
    /\ lastStoreCall # NoCall
    /\ lastStoreCall.op = "save"
    /\ underTest \in {"assignments", "dispatches", "planet_events"}
    /\ lastStoreCall.failed_at = 2
    /\ lastStoreCall.dirty

\* ---------------------------------------- the store, written concurrently
\* the writers of the assignments: the assignments step of collect_all_data,
\* on the scheduler's thread, and refresh_assignments, on the request's; each
\* save_assignments call has a connection of its own
Writers == {"collector", "refresh"}

Idle == [state |-> "idle", data |-> <<>>, next |-> 1, ok |-> TRUE]

\* a SELECT that sees the statements of a transaction still open
DirtyRead(committed, working) == working

\* what a SELECT on another connection sees while a transaction is open
Visible(committed, working) == committed

\* the ids of the assignments a writer fetched: two, the collector's with or
\* without an id
Fetches == [collector |-> [1..2 -> {-1} \cup Keys], refresh |-> [1..2 -> Keys]]

\* the assignments a writer fetched
Fetched(w, ids) == MkBatch(ids, IF w = "collector" THEN 0 ELSE MaxBatch)

\* save_assignments(data) is entered: sqlite3.connect
TxBegin(w) ==
    /\ tx[w].state = "idle"
    /\ \E ids \in Fetches[w] :
        tx' = [tx EXCEPT ![w] = [state |-> "open", data |-> Fetched(w, ids),
                                 next |-> 1, ok |-> TRUE]]
    /\ UNCHANGED <<now, db, underTest, written, lastStoreCall, clientVars,
                   serviceVars>>

\* the loop body for the next assignment: one without an id is skipped; the
\* INSERT OR REPLACE takes the write lock, or raises "database is locked"
\* when the other connection holds it (the except branch returns False)
TxExecute(w) ==
    /\ tx[w].state = "open" /\ tx[w].next <= Len(tx[w].data)
    /\ LET assignment == tx[w].data[tx[w].next]
       IN tx' =
            IF ~HasId(assignment) THEN [tx EXCEPT ![w].next = @ + 1]
            ELSE IF tx.lock \notin {"none", w}
                 THEN [tx EXCEPT ![w].state = "done", ![w].ok = FALSE]
            ELSE [tx EXCEPT
                    !.lock = w,
                    !.copy = SaveAssignments(IF tx.lock = w THEN tx.copy ELSE db,
                                             <<assignment>>, now),
                    ![w].next = @ + 1]
    /\ UNCHANGED <<now, db, underTest, written, lastStoreCall, clientVars,
                   serviceVars>>

\* conn.commit(): the statements of the transaction become the stored state
TxCommit(w) ==
    /\ tx[w].state = "open" /\ tx[w].next > Len(tx[w].data)
    /\ db' = IF tx.lock = w THEN tx.copy ELSE db
    /\ tx' = [tx EXCEPT !.lock = IF @ = w THEN "none" ELSE @,
                        ![w].state = "done"]
    /\ UNCHANGED <<now, underTest, written, lastStoreCall, clientVars,
                   serviceVars>>

\* GET /api/assignments: get_latest_assignments on a connection of its own
TxRead ==
    /\ tx' = [tx EXCEPT !.read =
                [taken |-> TRUE,
                 rows |-> GetAssignment(Visible(db, tx.copy),
                                        MaxRows + 2 * MaxBatch),
                 dirty |-> tx.lock # "none" /\ tx.copy # db]]
    /\ UNCHANGED <<now, db, underTest, written, lastStoreCall, clientVars,
                   serviceVars>>

\* the store before the two writes: assignment 1 of an earlier cycle
Seeded == SaveAssignments(InitDb, <<MkRecord(1, 0)>>, 0)

InitConcurrent ==
    /\ now = 0
    /\ db = Seeded
    /\ underTest = "assignments"
    /\ tx = [lock |-> "none", copy |-> Seeded, collector |-> Idle,
             refresh |-> Idle, read |-> [taken |-> FALSE]]
    /\ written = [t \in KeyedTables |-> <<>>]
    /\ lastStoreCall = NoCall
    /\ last_request_time = [c \in Clients |-> 0]
    /\ upstream = Healthy
    /\ lastCall = NoCall
    /\ InitService

NextConcurrent ==
    \/ \E w \in Writers : TxBegin(w)
    \/ \E w \in Writers : TxExecute(w)
    \/ \E w \in Writers : TxCommit(w)
    \/ TxRead

SpecConcurrent == InitConcurrent /\ [][NextConcurrent]_vars

\* ------------------------------------ claims: the store, written concurrently
\* the stores the two save_assignments calls give when they run one after
\* the other, in either order, or not at all
SerialStores ==
    LET c == tx.collector.data
        r == tx.refresh.data
    IN {Seeded,
        SaveAssignments(Seeded, c, now),
        SaveAssignments(Seeded, r, now),
        SaveAssignments(SaveAssignments(Seeded, c, now), r, now),
        SaveAssignments(SaveAssignments(Seeded, r, now), c, now)}

\* C19: while the collector's cycle and a refresh write the assignments, a
\* read returns what the store holds before or after a whole write, never a
\* part of one, and once both writers are done the stored rows are those of
\* the writes applied one after the other.
C19_ConcurrentWritesAreAtomic ==
    /\ tx.read.taken =>
        tx.read.rows \in {GetAssignment(s, MaxRows + 2 * MaxBatch) :
                            s \in SerialStores}
    /\ (tx.collector.state = "done" /\ tx.refresh.state = "done") =>
        /\ db.assignments \in {s.assignments : s \in SerialStores}
        /\ \A i \in 1..Len(db.assignments.rows) :
            JsonLoads(db.assignments.rows[i].data)
                \in {MkRecord(1, 0)}
                    \cup {tx.collector.data[j] : j \in 1..Len(tx.collector.data)}
                    \cup {tx.refresh.data[j] : j \in 1..Len(tx.refresh.data)}

\* both writers wrote the same assignment and committed, and a read ran
\* while one of them had executed statements it had not committed
C19_Witness ==
    /\ tx.read.taken /\ tx.read.dirty
    /\ tx.collector.state = "done" /\ tx.collector.ok
    /\ tx.refresh.state = "done" /\ tx.refresh.ok
    /\ \E i \in 1..Len(tx.collector.data), j \in 1..Len(tx.refresh.data) :
        /\ HasId(tx.collector.data[i]) /\ HasId(tx.refresh.data[j])
        /\ tx.collector.data[i].id = tx.refresh.data[j].id

\* ------------------------------------------------------ the system status
\* update_system_status with a plain INSERT: a row per call
UpdateSystemStatusAppending(d, key, value, ts) ==
    [d EXCEPT !.system_status =
        Insert(@, [key |-> key, value |-> value], ts)]

\* update_system_status: system_status.key is UNIQUE
UpdateSystemStatus(d, key, value, ts) ==
    [d EXCEPT !.system_status =
        InsertOrReplace(@, <<"key">>, [key |-> key, value |-> value], ts)]

\* get_system_status: the value of the row, None without one
GetSystemStatus(d, key) ==
    LET Match(r) == r.key = key
        found == SelectSeq(d.system_status.rows, Match)
    IN IF Len(found) > 0 THEN [value |-> found[1].value] ELSE None

\* set_upstream_status
SetUpstreamStatus(d, available, ts) ==
    UpdateSystemStatus(d, "upstream_api_available",
                       IF available THEN "true" ELSE "false", ts)

\* get_upstream_status: `status == "true" if status else False`
GetUpstreamStatus(d) ==
    LET status == GetSystemStatus(d, "upstream_api_available")
    IN IF status # None THEN status.value = "true" ELSE FALSE

\* --------------------------------------------------------- the collector
\* the requests of collect_all_data, in the order of the code
StepOps == <<"get_war_status", "get_statistics", "get_planets",
             "get_campaign_info", "get_assignments", "get_dispatches",
             "get_planet_events">>

\* the table the step of an operation writes
TableOf(op) ==
    CASE op = "get_war_status" -> "war_status"
      [] op = "get_statistics" -> "statistics"
      [] op = "get_planets" -> "planet_status"
      [] op = "get_campaign_info" -> "campaigns"
      [] op = "get_assignments" -> "assignments"
      [] op = "get_dispatches" -> "dispatches"
      [] OTHER -> "planet_events"

\* exception classes: requests.RequestException and its subclasses, and the
\* other subclasses of Exception met here
RequestExceptions == {"HTTPError", "Timeout", "ConnectionError"}
Exceptions == RequestExceptions \cup {"AttributeError", "TypeError"}

\* a handler that catches requests.RequestException only
CatchesRequestException(e) == e \in RequestExceptions

\* collect_all_data: `except Exception as e`
CycleCatches(e) == e \in Exceptions

\* a step ran to its end, or raised e after the writes that led to d
Done(d) == [d |-> d, exc |-> "none"]
Failed(d, e) == [d |-> d, exc |-> e]

\* the planets loop over planets[i..]: planet.get raises AttributeError on an
\* element that is no object; `if planet_index:` skips a missing index and 0;
\* every save_planet_status commits on its own
RECURSIVE CollectPlanets(_, _, _, _)
CollectPlanets(d, planets, i, ts) ==
    IF i > Len(planets) THEN Done(d)
    ELSE LET planet == planets[i]
         IN IF ~IsObject(planet) THEN Failed(d, "AttributeError")
            ELSE CollectPlanets(
                    IF Truthy(planet, "index")
                    THEN SavePlanetStatus(d, planet.index, planet, ts)
                    ELSE d,
                    planets, i + 1, ts)

\* the campaigns loop over campaigns[i..]:
\* campaign.get("planet", {}).get("index") raises AttributeError when the
\* campaign is no object or its planet is null
RECURSIVE CollectCampaigns(_, _, _, _)
CollectCampaigns(d, campaigns, i, ts) ==
    IF i > Len(campaigns) THEN Done(d)
    ELSE LET campaign == campaigns[i]
             has_planet == "planet" \in DOMAIN campaign
         IN IF ~IsObject(campaign) THEN Failed(d, "AttributeError")
            ELSE IF has_planet /\ ~IsObject(campaign.planet)
                 THEN Failed(d, "AttributeError")
            ELSE CollectCampaigns(
                    IF /\ Truthy(campaign, "id")
                       /\ has_planet
                       /\ Truthy(campaign.planet, "index")
                    THEN SaveCampaign(d, campaign.id, campaign.planet.index,
                                      campaign, ts)
                    ELSE d,
                    campaigns, i + 1, ts)

\* one step of collect_all_data once its fetch returned `data`
CollectStep(op, d, data, ts) ==
    IF data = None THEN Done(d)
    ELSE CASE op = "get_war_status" -> Done(SaveWarStatus(d, data, ts))
           [] op = "get_statistics" -> Done(SaveStatistics(d, data, ts))
           [] op = "get_planets" -> CollectPlanets(d, data.list, 1, ts)
           [] op = "get_campaign_info" -> CollectCampaigns(d, data.list, 1, ts)
           [] op = "get_assignments" ->
                Done(IF Len(data.list) > 0
                     THEN SaveAssignments(d, data.list, ts) ELSE d)
           [] op = "get_dispatches" ->
                Done(IF Len(data.list) > 0
                     THEN SaveDispatches(d, data.list, ts) ELSE d)
           [] OTHER ->
                Done(IF Len(data.list) > 0
                     THEN SavePlanetEvents(d, data.list, ts) ELSE d)

\* an exception handler that restores the store of the start of the cycle
OnExceptionRollingBack(before, d, ts) == SetUpstreamStatus(before, FALSE, ts)

\* the except branch of collect_all_data: log, set_upstream_status(False)
OnException(before, d, ts) == SetUpstreamStatus(d, FALSE, ts)

\* the rows of d1 that were inserted after d0
NewRows(d0, d1) ==
    UNION {{<<t, d1[t].rows[i].id>> :
                i \in {j \in 1..Len(d1[t].rows) : d1[t].rows[j].id > d0[t].seq}}
            : t \in Tables}

\* start() without its guard
NeverReturnsEarly(running) == FALSE

\* start(): `if self.is_running: return`
StartReturnsEarly(running) == running

\* start(): add_job, scheduler.start(), is_running = True
Start ==
    /\ lastLifecycle' = [op |-> "start", was_running |-> is_running,
                         jobs_before |-> jobs]
    /\ IF StartReturnsEarly(is_running)
       THEN UNCHANGED <<is_running, jobs>>
       ELSE /\ jobs' = jobs + 1
            /\ is_running' = TRUE
    /\ UNCHANGED <<now, storeVars, clientVars, pc, cycle, changes, lastResponse>>

\* stop(): scheduler.shutdown() waits for the running job and empties the
\* job store, is_running = False
Stop ==
    /\ is_running => pc = 0
    /\ lastLifecycle' = [op |-> "stop", was_running |-> is_running,
                         jobs_before |-> jobs]
    /\ IF ~is_running
       THEN UNCHANGED <<is_running, jobs>>
       ELSE /\ jobs' = 0
            /\ is_running' = FALSE
    /\ UNCHANGED <<now, storeVars, clientVars, pc, cycle, changes, lastResponse>>

\* a scheduler that drops the job once a cycle has raised
ScheduledRunUnlessRaised ==
    /\ is_running /\ jobs > 0 /\ pc = 0
    /\ cycle.n < MaxCycles
    /\ cycle # NoCycle => cycle.raised = "none"
    /\ pc' = 1
    /\ cycle' = [n |-> cycle.n + 1, fetched |-> <<>>, raised |-> "none",
                 outcome |-> "running", before |-> db, persisted |-> {},
                 obtained |-> FALSE]
    /\ UNCHANGED <<now, storeVars, clientVars, is_running, jobs, changes,
                   lastLifecycle, lastResponse>>

\* the scheduler runs the recurring job: collect_all_data is entered
ScheduledRun ==
    /\ is_running /\ jobs > 0 /\ pc = 0
    /\ cycle.n < MaxCycles
    /\ pc' = 1
    /\ cycle' = [n |-> cycle.n + 1, fetched |-> <<>>, raised |-> "none",
                 outcome |-> "running", before |-> db, persisted |-> {},
                 obtained |-> FALSE]
    /\ UNCHANGED <<now, storeVars, clientVars, is_running, jobs, changes,
                   lastLifecycle, lastResponse>>

\* one step of collect_all_data: the fetch (rate limited, one request), the
\* writes of the step, and what ends the cycle there: the except branch when
\* the step raised, set_upstream_status(True) after the last step
CollectorStep ==
    /\ pc \in 1..Len(StepOps)
    /\ LET op == StepOps[pc]
           sent == RequestTime("collector", 0)
           data == Result(op, Response(upstream, UrlOf(op)))
           out == CollectStep(op, db, data, sent)
           seen == [cycle EXCEPT !.fetched = Append(@, op),
                                 !.persisted = @ \cup NewRows(db, out.d),
                                 !.obtained = @ \/ data # None]
       IN /\ now' = sent
          /\ last_request_time' = [last_request_time EXCEPT !["collector"] = sent]
          /\ upstream' = Answered(upstream)
          /\ pc' = IF out.exc = "none" /\ pc < Len(StepOps) THEN pc + 1 ELSE 0
          /\ IF out.exc # "none"
             THEN IF CycleCatches(out.exc)
                  THEN /\ db' = OnException(cycle.before, out.d, sent)
                       /\ cycle' = [seen EXCEPT !.raised = out.exc,
                                                !.outcome = "returned"]
                  ELSE /\ db' = out.d
                       /\ cycle' = [seen EXCEPT !.raised = out.exc,
                                                !.outcome = "propagated"]
             ELSE IF pc = Len(StepOps)
                  THEN /\ db' = SetUpstreamStatus(out.d, TRUE, sent)
                       /\ cycle' = [seen EXCEPT !.outcome = "returned"]
                  ELSE /\ db' = out.d
                       /\ cycle' = seen
    /\ UNCHANGED <<underTest, tx, written, lastStoreCall, lastCall, is_running, jobs, changes,
                   lastLifecycle, lastResponse>>

\* what the remote API turns to while the collector runs
CollectorUpstream ==
    {Healthy,
     [kind |-> "ok", left |-> 0, shape |-> "bare"],
     [kind |-> "ok", left |-> 0, shape |-> "malformed"],
     [kind |-> "ok", left |-> 1, shape |-> "full"],
     [kind |-> "error", left |-> 0, shape |-> "bare"]}

UpstreamTurns ==
    /\ changes < MaxChanges
    /\ changes' = changes + 1
    /\ upstream' \in CollectorUpstream \ {upstream}
    /\ UNCHANGED <<now, storeVars, last_request_time, lastCall, is_running,
                   jobs, pc, cycle, lastLifecycle, lastResponse>>

InitCollector ==
    /\ now = request_delay
    /\ db = InitDb
    /\ underTest = "none"
    /\ tx = NoTx
    /\ lastStoreCall = NoCall
    /\ written = [t \in KeyedTables |-> <<>>]
    /\ last_request_time = [c \in Clients |-> 0]
    /\ upstream = Healthy
    /\ lastCall = NoCall
    /\ InitService

NextCollector ==
    \/ Start
    \/ Stop
    \/ ScheduledRun
    \/ CollectorStep
    \/ UpstreamTurns

SpecCollector == InitCollector /\ [][NextCollector]_vars

\* the interval trigger fires the job again and again while the scheduler
\* runs, and the job's thread goes on to the end of collect_all_data
SpecCollectorFair ==
    SpecCollector /\ WF_vars(ScheduledRun) /\ WF_vars(CollectorStep)

\* -------------------------------------------------- claims: the collector
CycleEnded == cycle # NoCycle /\ pc = 0

\* C5: collect_all_data returns to its caller whatever a step raised, and
\* when it has returned the upstream flag is true if no step raised and false
\* (stored as "false") if a step raised.
C5_CycleReturnsAndSetsFlag ==
    CycleEnded =>
        /\ cycle.outcome = "returned"
        /\ GetUpstreamStatus(db) = (cycle.raised = "none")
        /\ cycle.raised # "none" =>
            GetSystemStatus(db, "upstream_api_available") = [value |-> "false"]

\* the second cycle raised after the first one had set the flag to true
C5_Witness ==
    /\ CycleEnded
    /\ cycle.n = 2
    /\ cycle.raised = "AttributeError"
    /\ db.system_status.seq = 2
    /\ ~GetUpstreamStatus(db)

\* C6: after a cycle in which a step raised, every row the cycle had written
\* up to the failure is still stored, the requests of the cycle are the steps
\* up to the failing one and no more, the tables of the later steps are as
\* they were when the cycle began, and the upstream flag is false.
C6_PartialCycleKeepsWrites ==
    (CycleEnded /\ cycle.raised # "none") =>
        LET k == Len(cycle.fetched)
        IN /\ cycle.fetched = SubSeq(StepOps, 1, k)
           /\ \A w \in cycle.persisted :
                \E i \in 1..Len(db[w[1]].rows) : db[w[1]].rows[i].id = w[2]
           /\ \A j \in (k + 1)..Len(StepOps) :
                db[TableOf(StepOps[j])] = cycle.before[TableOf(StepOps[j])]
           /\ ~GetUpstreamStatus(db)

\* the campaigns step raised on its second campaign: war status, statistics,
\* both planets and the first campaign are stored, nothing of the later steps
C6_Witness ==
    /\ CycleEnded
    /\ cycle.raised # "none"
    /\ cycle.fetched = SubSeq(StepOps, 1, 4)
    /\ {w[1] : w \in cycle.persisted} =
            {"war_status", "statistics", "planet_status", "campaigns"}
    /\ Len(db.campaigns.rows) = 1
    /\ Len(db.assignments.rows) = 0

\* the resources of a cycle, in the order the claim gives
ResourceOrder == <<"/war", "/planets", "/campaigns", "/assignments",
                  "/dispatches", "/planet-events">>

\* C27: the requests of a cycle, made one step after the other with the
\* writes of a step done before the next request, go to war status, planets,
\* campaigns, assignments, dispatches and planet events in this order, and no
\* resource is requested twice in a cycle.
C27_FixedSequenceFetchedOnce ==
    cycle # NoCycle =>
        LET urls == [i \in 1..Len(cycle.fetched) |-> UrlOf(cycle.fetched[i])]
        IN /\ Len(urls) <= Len(ResourceOrder)
           /\ urls = SubSeq(ResourceOrder, 1, Len(urls))

\* C28: a statistics row written in a cycle comes with a war-status row
\* written in the same cycle, and it holds the statistics sub-field of that
\* war-status row.
C28_StatisticsFromPersistedWarStatus ==
    cycle # NoCycle =>
        \A s \in 1..Len(db.statistics.rows) :
            <<"statistics", db.statistics.rows[s].id>> \in cycle.persisted =>
                \E w \in 1..Len(db.war_status.rows) :
                    LET war_data == JsonLoads(db.war_status.rows[w].data)
                    IN /\ <<"war_status", db.war_status.rows[w].id>>
                                \in cycle.persisted
                       /\ "statistics" \in DOMAIN war_data
                       /\ JsonLoads(db.statistics.rows[s].data)
                                = war_data.statistics

\* the planets step of the running cycle was taken
PlanetsStepTaken == pc = 3 /\ pc' # pc

\* C29: when the planets step fetched a list of planet objects, the step
\* writes a planet_status row for every planet of the list that has an index,
\* index 0 included, it skips the planets without an index, and the cycle
\* goes on to the campaigns step.
C29_EveryIndexedPlanetIsWritten ==
    [][PlanetsStepTaken =>
        LET planets == Result("get_planets", Response(upstream, "/planets"))
        IN (/\ planets # None
            /\ \A i \in 1..Len(planets.list) : IsObject(planets.list[i])) =>
                /\ pc' = 4
                /\ cycle'.raised = "none"
                /\ \A i \in 1..Len(planets.list) :
                    "index" \in DOMAIN planets.list[i] =>
                        \E r \in 1..Len(db'.planet_status.rows) :
                            LET row == db'.planet_status.rows[r]
                            IN /\ row.id > db.planet_status.seq
                               /\ row.planet_index = planets.list[i].index
                               /\ JsonLoads(row.data) = planets.list[i]]_vars

\* the campaigns step of the running cycle was taken
CampaignsStepTaken == pc = 4 /\ pc' # pc

\* C30: when the campaigns step fetched a list of campaign objects, no
\* exception ends the cycle there (the assignments step comes next), and
\* every campaign of the list that has an id and a planet object with an
\* index is stored; a campaign without id, without planet, with a null planet
\* or with a planet without index is passed over.
C30_UnresolvableCampaignsAreSkipped ==
    [][CampaignsStepTaken =>
        LET campaigns ==
                Result("get_campaign_info", Response(upstream, "/campaigns"))
            Resolvable(c) == /\ "id" \in DOMAIN c
                             /\ "planet" \in DOMAIN c
                             /\ IsObject(c.planet)
                             /\ "index" \in DOMAIN c.planet
        IN (/\ campaigns # None
            /\ \A i \in 1..Len(campaigns.list) : IsObject(campaigns.list[i])) =>
                /\ pc' = 5
                /\ cycle'.raised = "none"
                /\ \A i \in 1..Len(campaigns.list) :
                    Resolvable(campaigns.list[i]) =>
                        \E r \in 1..Len(db'.campaigns.rows) :
                            LET row == db'.campaigns.rows[r]
                            IN /\ row.campaign_id = campaigns.list[i].id
                               /\ JsonLoads(row.data) = campaigns.list[i]]_vars

\* C39: when a cycle has ended and the upstream flag is true, which is when
\* GET /api/health says "online", at least one fetch of that cycle returned
\* data: a cycle whose fetches all returned None does not leave the flag true.
C39_OnlineMeansDataWasFetched ==
    (CycleEnded /\ GetUpstreamStatus(db)) => cycle.obtained

\* C7: the collector is stopped or running and starts stopped; running means
\* exactly one recurring job; start() while running and stop() while stopped
\* change nothing; start() from stopped gives running with one job; stop()
\* from running gives stopped.
C7_StartStopIdempotent ==
    /\ is_running => jobs = 1
    /\ lastLifecycle = NoLifecycle => ~is_running
    /\ lastLifecycle # NoLifecycle =>
        /\ is_running = (lastLifecycle.op = "start")
        /\ (lastLifecycle.op = "start" /\ lastLifecycle.was_running) =>
                jobs = lastLifecycle.jobs_before
        /\ (lastLifecycle.op = "stop" /\ ~lastLifecycle.was_running) =>
                jobs = lastLifecycle.jobs_before

\* start() was called on a running collector
C7_Witness ==
    /\ lastLifecycle # NoLifecycle
    /\ lastLifecycle.op = "start"
    /\ lastLifecycle.was_running
    /\ is_running
    /\ jobs = 1

\* C24: no step of collect_all_data, raising or not, changes is_running or
\* the scheduler's jobs; and whenever a cycle of a running collector has
\* ended, whatever it raised or fetched, the next cycle starts or stop() is
\* called.
C24_NextCycleAlwaysStarts ==
    /\ [][pc # 0 => UNCHANGED <<is_running, jobs>>]_vars
    /\ (CycleEnded /\ cycle.n < MaxCycles /\ is_running)
            ~> (pc # 0 \/ ~is_running)

\* a cycle started after one that had raised
C24_Witness ==
    /\ is_running
    /\ cycle.n = 2 /\ pc = 1
    /\ GetSystemStatus(cycle.before, "upstream_api_available")
            = [value |-> "false"]

\* C20: while no set_upstream_status call has stored a status,
\* get_upstream_status returns true.
C20_UpstreamStatusDefaultsToTrue ==
    GetSystemStatus(db, "upstream_api_available") = None
        => GetUpstreamStatus(db)

\* C21: the system-status table never holds more than one row, the row of
\* the upstream-availability key; no step of a running cycle touches it;
\* after a cycle has returned it holds exactly that row and
\* get_upstream_status is the boolean of the cycle's set_upstream_status
\* call, whatever the calls before it had stored.
C21_UpstreamStatusIsLastSet ==
    /\ Len(db.system_status.rows) <= 1
    /\ \A i \in 1..Len(db.system_status.rows) :
        db.system_status.rows[i].key = "upstream_api_available"
    /\ pc # 0 => db.system_status = cycle.before.system_status
    /\ (CycleEnded /\ cycle.outcome = "returned") =>
        /\ Len(db.system_status.rows) = 1
        /\ GetUpstreamStatus(db) = (cycle.raised = "none")

\* set_upstream_status(True) after set_upstream_status(False)
C21_Witness ==
    /\ CycleEnded
    /\ cycle.n = 2
    /\ cycle.raised = "none"
    /\ GetSystemStatus(cycle.before, "upstream_api_available")
            = [value |-> "false"]
    /\ GetUpstreamStatus(db)

\* ------------------------------------------------ the fallback endpoints
\* get_latest_planets_snapshot without `WHERE timestamp = ?`
GetPlanetsOfAllTimestamps(d) ==
    LET picked == OrderRows(d.planet_status.rows, "planet-index-asc")
    IN IF Len(picked) > 0 THEN JList(Datas(picked)) ELSE None

\* get_latest_planets_snapshot: the rows of the most recent timestamp, by
\* ascending planet_index (through idx_planet_status_index, equal indexes in
\* rowid order); None when empty
GetLatestPlanetsSnapshot(d) ==
    LET rows == d.planet_status.rows
        Latest(r) == \A j \in 1..Len(rows) : rows[j].timestamp <= r.timestamp
        picked == OrderRows(SelectSeq(rows, Latest), "planet-index-asc")
    IN IF Len(picked) > 0 THEN JList(Datas(picked)) ELSE None

\* get_latest_factions_snapshot: the factions of the latest war status
GetLatestFactionsSnapshot(d) ==
    LET war_data == GetLatestWarStatus(d)
    IN IF war_data # None /\ "factions" \in DOMAIN war_data
       THEN war_data.factions ELSE None

\* get_latest_biomes_snapshot without the `biome_name not in biomes` test
GetBiomesOfEveryPlanet(d) ==
    LET rows == d.planet_status.rows
        Latest(r) == \A j \in 1..Len(rows) : rows[j].timestamp <= r.timestamp
        planets == Datas(SelectSeq(rows, Latest))
        Named(p) == /\ "biome" \in DOMAIN p /\ IsObject(p.biome)
                    /\ "name" \in DOMAIN p.biome
        found == SelectSeq(planets, Named)
    IN IF Len(found) > 0
       THEN JList([k \in 1..Len(found) |-> found[k].biome])
       ELSE None

\* get_latest_biomes_snapshot: the biomes of the planets of the most recent
\* timestamp, in rowid order; a biome that is no object is skipped
GetLatestBiomesSnapshot(d) ==
    LET rows == d.planet_status.rows
        Latest(r) == \A j \in 1..Len(rows) : rows[j].timestamp <= r.timestamp
        biomes == UniqueBiomes(Datas(SelectSeq(rows, Latest)), 1, {})
    IN IF Len(biomes) > 0 THEN JList(biomes) ELSE None

\* ---------------------------------------------------- claims: the snapshots
\* the rows of planet_status that carry its most recent timestamp
LatestPlanetRows ==
    LET rows == db.planet_status.rows
    IN {r \in {rows[i] : i \in 1..Len(rows)} :
            \A j \in 1..Len(rows) : rows[j].timestamp <= r.timestamp}

\* the planets of the latest snapshot, in the order of the scan
LatestPlanets ==
    LET rows == db.planet_status.rows
        Latest(r) == \A j \in 1..Len(rows) : rows[j].timestamp <= r.timestamp
    IN Datas(SelectSeq(rows, Latest))

\* planet i of the latest snapshot has an object for a biome, with a name
HasNamedBiome(i) ==
    /\ "biome" \in DOMAIN LatestPlanets[i]
    /\ IsObject(LatestPlanets[i].biome)
    /\ "name" \in DOMAIN LatestPlanets[i].biome

\* C25: get_latest_biomes_snapshot returns None when no planet of the latest
\* snapshot has a named biome object; otherwise it returns one biome per
\* distinct name, each the biome of the first planet that carries the name;
\* planets with another kind of biome value, or none, contribute nothing.
C25_BiomesSnapshotOnePerName ==
    LET snap == GetLatestBiomesSnapshot(db)
        named == {i \in 1..Len(LatestPlanets) : HasNamedBiome(i)}
        names == {LatestPlanets[i].biome.name : i \in named}
    IN IF names = {} THEN snap = None
       ELSE /\ snap # None
            /\ Len(snap.list) = Cardinality(names)
            /\ \A k \in 1..Len(snap.list) :
                \E i \in named :
                    /\ snap.list[k] = LatestPlanets[i].biome
                    /\ \A j \in named :
                        LatestPlanets[j].biome.name = snap.list[k].name
                            => i <= j

\* two planets of the latest snapshot share a biome name, a third has a
\* string for a biome
C25_Witness ==
    /\ Len(LatestPlanets) = 3
    /\ \E i, j, k \in 1..3 :
        /\ i < j /\ HasNamedBiome(i) /\ HasNamedBiome(j)
        /\ LatestPlanets[i].biome.name = LatestPlanets[j].biome.name
        /\ "biome" \in DOMAIN LatestPlanets[k]
        /\ ~IsObject(LatestPlanets[k].biome)
    /\ Len(GetLatestBiomesSnapshot(db).list) = 1

\* C26: get_latest_campaigns_snapshot returns None when no campaign was ever
\* saved; otherwise it returns exactly one entry for every campaign id ever
\* saved, that entry being the record of the last write for the id, whether
\* the row's status is active or expired.
C26_CampaignsSnapshotOnePerId ==
    LET snap == GetLatestCampaignsSnapshot(db)
        saved == written.campaigns
    IN IF DOMAIN saved = {} THEN snap = None
       ELSE /\ snap # None
            /\ Len(snap.list) = Cardinality(DOMAIN saved)
            /\ \A k \in DOMAIN saved :
                \E i \in 1..Len(snap.list) : snap.list[i] = saved[k]

\* campaign ids 0 and 1 are stored, one of them was saved more than once, one
\* row is expired and the other is active
C26_Witness ==
    /\ Len(db.campaigns.rows) = 2
    /\ db.campaigns.seq > 2
    /\ \E i, j \in 1..2 :
        /\ db.campaigns.rows[i].status = "expired"
        /\ db.campaigns.rows[j].status = "active"
    /\ Len(GetLatestCampaignsSnapshot(db).list) = 2

\* C12: get_latest_planets_snapshot returns None when planet_status is empty;
\* otherwise it returns, once each, exactly the rows that carry the most
\* recent timestamp of the table, in ascending order of planet index.
C12_PlanetsSnapshotLatestByIndex ==
    LET snap == GetLatestPlanetsSnapshot(db)
    IN IF Len(db.planet_status.rows) = 0 THEN snap = None
       ELSE /\ snap # None
            /\ Len(snap.list) = Cardinality(LatestPlanetRows)
            /\ {snap.list[i] : i \in 1..Len(snap.list)} =
                    {JsonLoads(r.data) : r \in LatestPlanetRows}
            /\ \A i \in 1..(Len(snap.list) - 1) :
                    snap.list[i].index <= snap.list[i + 1].index

\* after an older row, planets 1 and 0 were stored in that order within one
\* second: the snapshot is planet 0, then planet 1
C12_Witness ==
    /\ Len(db.planet_status.rows) = 3
    /\ db.planet_status.rows[1].timestamp < db.planet_status.rows[2].timestamp
    /\ db.planet_status.rows[2].timestamp = db.planet_status.rows[3].timestamp
    /\ db.planet_status.rows[2].planet_index = 1
    /\ db.planet_status.rows[3].planet_index = 0
    /\ GetLatestPlanetsSnapshot(db) =
        JList(<<JsonLoads(db.planet_status.rows[3].data),
                JsonLoads(db.planet_status.rows[2].data)>>)

Endpoints == {"campaigns", "planets", "factions", "biomes"}

\* the live fetch of GET /api/<endpoint>
LiveOp(endpoint) ==
    CASE endpoint = "campaigns" -> "get_campaign_info"
      [] endpoint = "planets" -> "get_planets"
      [] endpoint = "factions" -> "get_factions"
      [] OTHER -> "get_biomes"

\* the snapshot GET /api/<endpoint> falls back to
Snapshot(endpoint, d) ==
    CASE endpoint = "campaigns" -> GetLatestCampaignsSnapshot(d)
      [] endpoint = "planets" -> GetLatestPlanetsSnapshot(d)
      [] endpoint = "factions" -> GetLatestFactionsSnapshot(d)
      [] OTHER -> GetLatestBiomesSnapshot(d)

\* `if not data`: None and the empty list alike
IsFalsy(x) == x = None \/ ("list" \in DOMAIN x /\ Len(x.list) = 0)

\* `if data is None`
IsNoData(x) == x = None

\* get_campaigns, get_planets, get_factions, get_biomes of app.py once the
\* live fetch returned `live` (or raised: the framework answers 500)
Respond(endpoint, live, d) ==
    IF HasRaised(live)
    THEN [endpoint |-> endpoint, live |-> live, consulted |-> FALSE,
          cached |-> Snapshot(endpoint, d), status |-> 500, body |-> None]
    ELSE LET consulted == IsNoData(live)
             data == IF consulted THEN Snapshot(endpoint, d) ELSE live
         IN [endpoint |-> endpoint, live |-> live, consulted |-> consulted,
             cached |-> Snapshot(endpoint, d),
             status |-> (IF ~IsNoData(data) THEN 200 ELSE 503),
             body |-> (IF ~IsNoData(data) THEN data ELSE None)]

\* collect_planet_data without its save_planet_status call
CollectPlanetDataUnsaved(d, planet_index, planet_data, ts) ==
    [d |-> d, data |-> IF IsTruthy(planet_data) THEN planet_data ELSE None]

\* collect_planet_data once get_planet_status returned planet_data: a truthy
\* value is saved and returned, anything else gives None
CollectPlanetData(d, planet_index, planet_data, ts) ==
    IF IsTruthy(planet_data)
    THEN [d |-> SavePlanetStatus(d, planet_index, planet_data, ts),
          data |-> planet_data]
    ELSE [d |-> d, data |-> None]

\* the fallback of GET /api/planets/{planet_index}: the data of the newest
\* row of the planet's history
PlanetCached(d, planet_index) ==
    LET history == GetPlanetStatusHistory(d, planet_index, 1)
    IN IF Len(history) > 0 THEN history[1].data ELSE None

\* get_planet_status of app.py once collect_planet_data returned `live`
RespondPlanet(planet_index, live, d) ==
    LET consulted == IsNoData(live)
        data == IF consulted THEN PlanetCached(d, planet_index) ELSE live
    IN [endpoint |-> "planet", planet_index |-> planet_index, live |-> live,
        consulted |-> consulted, cached |-> PlanetCached(d, planet_index),
        status |-> (IF ~IsNoData(data) THEN 200 ELSE 503),
        body |-> (IF ~IsNoData(data) THEN data ELSE None)]

\* GET /api/campaigns, /api/planets, /api/factions, /api/biomes
ApiGet(endpoint) ==
    LET op == LiveOp(endpoint)
        sent == RequestTime("app", 0)
        live == Result(op, Response(upstream, UrlOf(op)))
    IN /\ lastResponse.served < MaxCalls
       /\ now' = sent
       /\ last_request_time' = [last_request_time EXCEPT !["app"] = sent]
       /\ upstream' = Answered(upstream)
       /\ lastResponse' =
            Respond(endpoint, live, db)
                @@ [served |-> lastResponse.served + 1, upstream |-> upstream]
       /\ UNCHANGED <<storeVars, lastCall, collectorVars>>

Get == \E endpoint \in Endpoints : ApiGet(endpoint)

\* GET /api/planets/{planet_index}: the live fetch goes through the
\* collector's client and saves what it fetched
ApiGetPlanetStatus(planet_index) ==
    LET op == "get_planet_status"
        sent == RequestTime("collector", 0)
        planet_data == Result(op, Response(upstream, UrlOf(op)))
        out == CollectPlanetData(db, planet_index, planet_data, sent)
    IN /\ lastResponse.served < MaxCalls
       /\ now' = sent
       /\ last_request_time' =
            [last_request_time EXCEPT !["collector"] = sent]
       /\ upstream' = Answered(upstream)
       /\ db' = out.d
       /\ lastResponse' =
            RespondPlanet(planet_index, out.data, out.d)
                @@ [served |-> lastResponse.served + 1, upstream |-> upstream]
       /\ UNCHANGED <<underTest, tx, written, lastStoreCall, lastCall, collectorVars>>

GetPlanet == \E planet_index \in 1..MaxKey : ApiGetPlanetStatus(planet_index)

\* lifespan of app.py: the collector is started before the first request is
\* served and stopped after the last one
InitApi ==
    /\ now = request_delay
    /\ db = InitDb
    /\ underTest = "none"
    /\ tx = NoTx
    /\ lastStoreCall = NoCall
    /\ written = [t \in KeyedTables |-> <<>>]
    /\ last_request_time = [c \in Clients |-> 0]
    /\ upstream = Healthy
    /\ lastCall = NoCall
    /\ is_running = TRUE
    /\ jobs = 1
    /\ pc = 0
    /\ cycle = NoCycle
    /\ changes = 0
    /\ lastLifecycle = [op |-> "start", was_running |-> FALSE, jobs_before |-> 0]
    /\ lastResponse = NoResponse

\* the remote API changes its behaviour between two collect-all cycles
UpstreamTurnsIdle == pc = 0 /\ UpstreamTurns

NextApi ==
    \/ Get
    \/ GetPlanet
    \/ ScheduledRun
    \/ CollectorStep
    \/ UpstreamTurnsIdle

SpecApi == InitApi /\ [][NextApi]_vars

\* ---------------------------------------------------- claims: the endpoints
\* C1: at a fallback endpoint whose live fetch returned, live data is the
\* response (200) and the snapshot is not consulted; without live data the
\* snapshot is consulted and, when it holds a value, that value is the
\* response (200); the response is 503, without a body, exactly when neither
\* gave a value.
C1_FallbackOrdering ==
    (lastResponse # NoResponse /\ ~HasRaised(lastResponse.live)) =>
        /\ lastResponse.live # None =>
            /\ ~lastResponse.consulted
            /\ lastResponse.status = 200
            /\ lastResponse.body = lastResponse.live
        /\ lastResponse.live = None =>
            /\ lastResponse.consulted
            /\ lastResponse.cached # None =>
                /\ lastResponse.status = 200
                /\ lastResponse.body = lastResponse.cached
            /\ lastResponse.cached = None =>
                /\ lastResponse.status = 503
                /\ lastResponse.body = None
        /\ lastResponse.status = 503 =>
            (lastResponse.live = None /\ lastResponse.cached = None)

\* the upstream failed and the campaigns of an earlier cycle were served
C1_Witness ==
    /\ lastResponse # NoResponse
    /\ lastResponse.endpoint = "campaigns"
    /\ lastResponse.live = None
    /\ lastResponse.consulted
    /\ lastResponse.status = 200
    /\ Len(lastResponse.body.list) = 2

\* the response a request for the resource of response r gets from store d
\* while the live fetch is unavailable
LaterResponse(r, d) ==
    IF r.endpoint = "planet" THEN RespondPlanet(r.planet_index, None, d)
    ELSE Respond(r.endpoint, None, d)

\* C15: once a fallback endpoint answered from a successful live fetch, a
\* later request for the same resource made while the upstream is
\* unavailable is served from the store (200) and not refused with 503.
C15_LiveSuccessIsWrittenThrough ==
    (/\ lastResponse # NoResponse
     /\ ~HasRaised(lastResponse.live)
     /\ lastResponse.live # None)
        => LaterResponse(lastResponse, db).status = 200


\* the live fetch of response r was answered 200 with an empty list
AnsweredEmpty(r) ==
    /\ r.upstream.kind = "ok" /\ r.upstream.left = 0
    /\ Body(UrlOf(LiveOp(r.endpoint)), r.upstream.shape) = JList(<<>>)

\* C16: at a fallback endpoint, an upstream that answers with an empty
\* collection gives 200 with the empty collection and the store is not
\* consulted; an unavailable upstream with nothing stored gives 503.
C16_EmptyStatesDistinguishable ==
    (lastResponse # NoResponse /\ lastResponse.endpoint \in Endpoints) =>
        /\ AnsweredEmpty(lastResponse) =>
            /\ lastResponse.status = 200
            /\ lastResponse.body = JList(<<>>)
            /\ ~lastResponse.consulted
        /\ (/\ RaisesRequestException(
                  Response(lastResponse.upstream,
                           UrlOf(LiveOp(lastResponse.endpoint))))
            /\ lastResponse.cached = None)
                => lastResponse.status = 503


\* the planet indexes the planets step of the present cycle has stored
PlanetsOfCycle ==
    IF cycle = NoCycle THEN {}
    ELSE {db.planet_status.rows[i].planet_index :
            i \in {j \in 1..Len(db.planet_status.rows) :
                <<"planet_status", db.planet_status.rows[j].id>>
                    \in cycle.persisted}}

\* C36: once the planets step of a cycle has stored the planets P,
\* get_latest_planets_snapshot has an entry for every planet of P, also after
\* a single-planet request has stored a row of its own.
C36_SnapshotHoldsTheCyclesPlanets ==
    PlanetsOfCycle # {} =>
        LET snap == GetLatestPlanetsSnapshot(db)
        IN /\ snap # None
           /\ \A p \in PlanetsOfCycle :
                \E i \in 1..Len(snap.list) : snap.list[i].index = p

\* C38: every request the process sends, on either client, is sent at least
\* request_delay after the request the process sent before it, whichever
\* client sent that one.
C38_ProcessWideMinimumInterval ==
    [][\A c \in Clients :
        last_request_time'[c] # last_request_time[c] =>
            \A o \in Clients :
                last_request_time[o] > 0 =>
                    last_request_time'[c] - last_request_time[o]
                        >= request_delay]_vars

C23_PlanetLiveElseNewestStored ==
    \A planet_index \in Keys :
        LET rows == PlanetRows(db, planet_index)
            live == [index |-> planet_index]
            fresh == RespondPlanet(planet_index, live, db)
            fallback == RespondPlanet(planet_index, None, db)
        IN /\ fresh.status = 200 /\ fresh.body = live
           /\ Len(rows) = 0 <=> fallback.status = 503
           /\ Len(rows) > 0 =>
                /\ fallback.status = 200
                /\ fallback.body = JsonLoads(rows[Len(rows)].data)

\* ------------------------------------------------- the refresh endpoints
\* the live fetch of POST /api/war/status/refresh, /api/assignments/refresh,
\* /api/dispatches/refresh, /api/planet-events/refresh, /api/statistics/refresh
RefreshOps == {"get_war_status", "get_assignments", "get_dispatches",
               "get_planet_events", "get_statistics"}

\* the save_* call of a refresh endpoint
RefreshSave(op, d, data, ts) ==
    CASE op = "get_war_status" -> SaveWarStatus(d, data, ts)
      [] op = "get_statistics" -> SaveStatistics(d, data, ts)
      [] op = "get_assignments" -> SaveAssignments(d, data.list, ts)
      [] op = "get_dispatches" -> SaveDispatches(d, data.list, ts)
      [] OTHER -> SavePlanetEvents(d, data.list, ts)

\* a refresh endpoint: `if data:` saves and answers 200 with success and the
\* data, anything else is a 500
ApiRefresh(op) ==
    LET sent == RequestTime("app", 0)
        data == Result(op, Response(upstream, UrlOf(op)))
        saved == IF IsTruthy(data) THEN RefreshSave(op, db, data, sent) ELSE db
    IN /\ lastResponse.served < MaxCalls
       /\ now' = sent
       /\ last_request_time' = [last_request_time EXCEPT !["app"] = sent]
       /\ upstream' = Answered(upstream)
       /\ db' = saved
       /\ lastResponse' =
            [endpoint |-> "refresh", op |-> op, live |-> data,
             upstream |-> upstream, served |-> lastResponse.served + 1,
             persisted |-> NewRows(db, saved),
             status |-> (IF IsTruthy(data) THEN 200 ELSE 500),
             body |-> (IF IsTruthy(data)
                       THEN [success |-> TRUE, data |-> data] ELSE None)]
       /\ UNCHANGED <<underTest, tx, written, lastStoreCall, lastCall, collectorVars>>

Refresh == \E op \in RefreshOps : ApiRefresh(op)

NextRefresh ==
    \/ Refresh
    \/ ScheduledRun
    \/ CollectorStep
    \/ UpstreamTurnsIdle

SpecRefresh == InitApi /\ [][NextRefresh]_vars

\* ------------------------------------------------------- the whole service
\* the collector's cycles next to the requests app.py serves: the fallback
\* GET endpoints, the single-planet request and the refresh endpoints
NextService ==
    \/ Get
    \/ GetPlanet
    \/ Refresh
    \/ ScheduledRun
    \/ CollectorStep
    \/ UpstreamTurnsIdle

SpecService == InitApi /\ [][NextService]_vars

\* C33: no step of a collector cycle, of a refresh or of a single-planet
\* request deletes a record: the rows of war_status, statistics and
\* planet_status stay as they are and new rows come after them, and every key
\* of campaigns, assignments, dispatches and planet_events stays in its table.
C33_NoRecordIsDeleted ==
    [][/\ \A t \in AppendTables :
            /\ Len(db'[t].rows) >= Len(db[t].rows)
            /\ SubSeq(db'[t].rows, 1, Len(db[t].rows)) = db[t].rows
       /\ \A t \in KeyedTables :
            KeysStored(t, db) \subseteq KeysStored(t, db')]_vars

\* two cycles wrote the campaigns (rows were replaced) and the planets, and a
\* single-planet request added a row for a planet that had rows
C33_Witness ==
    /\ Len(db.campaigns.rows) > 0
    /\ db.campaigns.seq > Len(db.campaigns.rows)
    /\ lastResponse.endpoint = "planet"
    /\ lastResponse.live # None
    /\ Len(PlanetRows(db, lastResponse.planet_index)) >= 2
    /\ db.planet_status.rows[Len(db.planet_status.rows)].planet_index
            = lastResponse.planet_index

\* ------------------------------------------- claims: the refresh endpoints
\* C17: a refresh endpoint answers 500 exactly when its live fetch gave no
\* value; every fetched value, the empty list included, is answered 200 with
\* success and the value, and a value that holds records is persisted.
C17_RefreshFailsOnlyWhenUnavailable ==
    (lastResponse # NoResponse /\ lastResponse.endpoint = "refresh") =>
        /\ lastResponse.status = 500 <=> lastResponse.live = None
        /\ lastResponse.live # None =>
            /\ lastResponse.status = 200
            /\ lastResponse.body = [success |-> TRUE, data |-> lastResponse.live]
            /\ IsTruthy(lastResponse.live) => lastResponse.persisted # {}

====
